---- MODULE Spec2Model ----
(***************************************************************************)
(* A model of the smartflow workflow engine: MessageProcessor             *)
(* (message_processor.py), the helpers of Utilities (utils/utilities.py), *)
(* the ActionHandler base class, the registered sample handlers and the   *)
(* status and blob storage clients the processor talks to.                *)
(*                                                                         *)
(* A Python str is a sequence of one-character strings, so that lower(),  *)
(* replace(), split(), "in" and the regular expression of                 *)
(* replace_placeholders are computed, not assumed.  A Python dict is a    *)
(* sequence of [k, v] records in insertion order with unique keys.        *)
(***************************************************************************)
EXTENDS Integers, Sequences, FiniteSets, TLC

(* ------------------------------ bounds -------------------------------- *)

\* longest list of primary actions of a workflow
MaxActions == 2

\* longest list of error actions of a workflow
MaxErrorActions == 2

(* ------------------------- string literals ---------------------------- *)

s_workflow_message_id == <<"w","o","r","k","f","l","o","w",".","m","e","s","s","a","g","e","_","i","d">>
s_workflow_config_name == <<"w","o","r","k","f","l","o","w",".","c","o","n","f","i","g","_","n","a","m","e">>
s_workflow_result == <<"w","o","r","k","f","l","o","w",".","r","e","s","u","l","t">>
s_workflow_name == <<"w","o","r","k","f","l","o","w",".","n","a","m","e">>
s_workflow_last_action == <<"w","o","r","k","f","l","o","w",".","l","a","s","t","_","a","c","t","i","o","n">>
s_workflow_dot == <<"w","o","r","k","f","l","o","w",".">>
s_Processing == <<"P","r","o","c","e","s","s","i","n","g">>
s_Error == <<"E","r","r","o","r">>
s_Success == <<"S","u","c","c","e","s","s">>
s_error == <<"e","r","r","o","r">>
s_success == <<"s","u","c","c","e","s","s">>
s_result == <<"r","e","s","u","l","t">>
s_None == <<"N","o","n","e">>
s_Executing_colon == <<"E","x","e","c","u","t","i","n","g",":"," ">>
s_Executing_sp == <<"E","x","e","c","u","t","i","n","g"," ">>
s_dots == <<".",".",".">>
s_m1 == <<"m","1">>
s_missing_cfg == <<"m","i","s","s","i","n","g">>
s_wf_cfg == <<"w","f">>
s_Test_Workflow == <<"T","e","s","t"," ","W","o","r","k","f","l","o","w">>
s_Missing_or_malformed == <<"M","i","s","s","i","n","g"," ","o","r"," ","m","a","l","f","o","r","m","e","d"," ","w","o","r","k","f","l","o","w"," ","c","o","n","f","i","g"," ","'">>
s_quote_dot == <<"'",".">>
s_Workflow_execution_failed == <<"W","o","r","k","f","l","o","w"," ","e","x","e","c","u","t","i","o","n"," ","f","a","i","l","e","d"," ","f","o","r"," ","'">>
s_Last_action_was == <<"'","."," ","L","a","s","t"," ","a","c","t","i","o","n"," ","w","a","s"," ","'">>
s_No_active_exception == <<"N","o"," ","a","c","t","i","v","e"," ","e","x","c","e","p","t","i","o","n"," ","t","o"," ","r","e","r","a","i","s","e">>
s_KeyError_last_action == <<"'","w","o","r","k","f","l","o","w",".","l","a","s","t","_","a","c","t","i","o","n","'">>
s_Action_handler_not_found == <<"A","c","t","i","o","n"," ","h","a","n","d","l","e","r"," ","n","o","t"," ","f","o","u","n","d"," ","f","o","r"," ","a","c","t","i","o","n",":"," ">>
s_Missing_required_fields == <<"M","i","s","s","i","n","g"," ","r","e","q","u","i","r","e","d"," ","f","i","e","l","d","s",":"," ">>
s_comma_sp == <<","," ">>
s_error_json == <<"e","r","r","o","r",".","j","s","o","n">>
s_test_txt == <<"t","e","s","t",".","t","x","t">>
s_Hello_world_bang == <<"H","e","l","l","o",","," ","w","o","r","l","d","!">>
s_Hello_comma == <<"H","e","l","l","o",","," ">>
s_greeting == <<"g","r","e","e","t","i","n","g">>
s_user_name == <<"u","s","e","r","_","n","a","m","e">>
s_record_id == <<"r","e","c","o","r","d","_","i","d">>
s_1234567890 == <<"1","2","3","4","5","6","7","8","9","0">>
s_dummy == <<"d","u","m","m","y">>
s_hello_world == <<"h","e","l","l","o","_","w","o","r","l","d">>
s_create_some_record == <<"c","r","e","a","t","e","_","s","o","m","e","_","r","e","c","o","r","d">>
s_create_some_file == <<"c","r","e","a","t","e","_","s","o","m","e","_","f","i","l","e">>
s_not_registered == <<"n","o","t","_","r","e","g","i","s","t","e","r","e","d">>
s_Create_Some_Record == <<"C","r","e","a","t","e"," ","S","o","m","e"," ","R","e","c","o","r","d">>
s_Bob_record == <<"B","o","b"," ","{","C","r","e","a","t","e","_","S","o","m","e","_","R","e","c","o","r","d",".","r","e","c","o","r","d","_","i","d","}">>
s_record_id_template == <<"r","e","c","o","r","d","_","i","d","=","{","C","r","e","a","t","e","_","S","o","m","e","_","R","e","c","o","r","d",".","r","e","c","o","r","d","_","i","d","}">>
s_flag == <<"f","l","a","g">>
s_yes == <<"y","e","s">>
s_cond_flag_yes == <<"w","o","r","k","f","l","o","w",".","f","l","a","g"," ","=","="," ","'","y","e","s","'">>
s_storage_unavailable == <<"s","t","o","r","a","g","e"," ","u","n","a","v","a","i","l","a","b","l","e">>
s_STORAGE_ENV == <<"S","M","A","R","T","F","L","O","W","_","S","T","O","R","A","G","E","_","C","O","N","N","E","C","T","I","O","N","_","S","T","R","I","N","G">>
s_SERVICE_BUS_ENV == <<"S","M","A","R","T","F","L","O","W","_","S","E","R","V","I","C","E","_","B","U","S","_","C","O","N","N","E","C","T","I","O","N","_","S","T","R","I","N","G">>
s_Missing_required_env == <<"M","i","s","s","i","n","g"," ","r","e","q","u","i","r","e","d"," ","e","n","v","i","r","o","n","m","e","n","t"," ","v","a","r","i","a","b","l","e","s",":"," ">>
s_json_suffix == <<".","j","s","o","n">>
s_dummy_ret_global == <<"d","u","m","m","y","_","r","e","t","_","g","l","o","b","a","l">>
s_workflow_wf_param_set_in_action == <<"w","o","r","k","f","l","o","w",".","w","f","_","p","a","r","a","m","_","s","e","t","_","i","n","_","a","c","t","i","o","n">>
s_workflow_wf_param_set_in_definition == <<"w","o","r","k","f","l","o","w",".","w","f","_","p","a","r","a","m","_","s","e","t","_","i","n","_","d","e","f","i","n","i","t","i","o","n">>
s_wf_param_set_in_definition == <<"w","f","_","p","a","r","a","m","_","s","e","t","_","i","n","_","d","e","f","i","n","i","t","i","o","n">>
s_A_new_value_from_action == <<"A"," ","n","e","w"," ","v","a","l","u","e"," ","f","r","o","m"," ","a","c","t","i","o","n">>
s_A_new_value_from_definition == <<"A"," ","n","e","w"," ","v","a","l","u","e"," ","f","r","o","m"," ","d","e","f","i","n","i","t","i","o","n"," ","-"," ","r","e","p","l","a","c","e","s"," ","a","c","t","i","o","n"," ","v","a","l","u","e">>
s_from_message == <<"f","r","o","m"," ","m","e","s","s","a","g","e">>
s_failed_result == <<"f","a","i","l","e","d","_","r","e","s","u","l","t">>
s_empty_result == <<"e","m","p","t","y","_","r","e","s","u","l","t">>
s_Failed == <<"F","a","i","l","e","d">>
s_message_id == <<"m","e","s","s","a","g","e","_","i","d">>
s_config_name == <<"c","o","n","f","i","g","_","n","a","m","e">>
s_m2 == <<"m","2">>
s_other_cfg == <<"o","t","h","e","r">>
s_workflow == <<"w","o","r","k","f","l","o","w">>
s_Queued == <<"Q","u","e","u","e","d">>
s_Started == <<"S","t","a","r","t","e","d">>
s_or == <<" ","o","r"," ">>
s_and == <<" ","a","n","d"," ">>
s_is_None == <<" ","i","s"," ","N","o","n","e">>
s_is_not_None == <<" ","i","s"," ","n","o","t"," ","N","o","n","e">>
s_hello_world_error == <<"h","e","l","l","o","_","w","o","r","l","d",".","e","r","r","o","r">>
s_missing_user_name == <<"M","i","s","s","i","n","g"," ","r","e","q","u","i","r","e","d"," ","f","i","e","l","d","s",":"," ","[","'","u","s","e","r","_","n","a","m","e","'","]">>
s_no_result == <<"n","o","_","r","e","s","u","l","t">>
s_shadowed == <<"s","h","a","d","o","w","e","d">>
s_Create_Some_Record_record_id == <<"C","r","e","a","t","e","_","S","o","m","e","_","R","e","c","o","r","d",".","r","e","c","o","r","d","_","i","d">>
s_Bob_1234567890 == <<"B","o","b"," ","1","2","3","4","5","6","7","8","9","0">>
s_record_id_1234567890 == <<"r","e","c","o","r","d","_","i","d","=","1","2","3","4","5","6","7","8","9","0">>
s_no == <<"n","o">>
s_wf2_cfg == <<"w","f","2">>
s_Second_Workflow == <<"S","e","c","o","n","d"," ","W","o","r","k","f","l","o","w">>
s_table_unavailable == <<"t","a","b","l","e"," ","u","n","a","v","a","i","l","a","b","l","e">>

\* Python's None.  It is no sequence of characters ("None" is one element,
\* not four), so it differs from every str, str(None) included.
None == <<"None">>

(* --------------------------- str operations --------------------------- *)

UpperCase == <<"A","B","C","D","E","F","G","H","I","J","K","L","M","N","O","P","Q","R","S","T","U","V","W","X","Y","Z">>

LowerCase == <<"a","b","c","d","e","f","g","h","i","j","k","l","m","n","o","p","q","r","s","t","u","v","w","x","y","z">>

LowerChar(c) ==
    IF \E i \in 1..26 : UpperCase[i] = c
    THEN LowerCase[CHOOSE i \in 1..26 : UpperCase[i] = c]
    ELSE c

\* str.lower()
Lower(s) == [i \in 1..Len(s) |-> LowerChar(s[i])]

\* str.replace(a, b) for one-character a and b
ReplaceChar(s, a, b) == [i \in 1..Len(s) |-> IF s[i] = a THEN b ELSE s[i]]

\* s[i:].startswith(sub), i counted from 1
MatchAt(s, sub, i) ==
    /\ i >= 1
    /\ i + Len(sub) - 1 <= Len(s)
    /\ SubSeq(s, i, i + Len(sub) - 1) = sub

\* sub in s
Contains(s, sub) == \E i \in 1..(Len(s) + 1) : MatchAt(s, sub, i)

\* s.find(sub), counted from 1; 0 when sub does not occur
Find(s, sub) ==
    IF Contains(s, sub)
    THEN CHOOSE i \in 1..(Len(s) + 1) :
            /\ MatchAt(s, sub, i)
            /\ \A j \in 1..(i - 1) : ~MatchAt(s, sub, j)
    ELSE 0

StartsWith(s, sub) == MatchAt(s, sub, 1)

EndsWith(s, sub) == MatchAt(s, sub, Len(s) - Len(sub) + 1)

RECURSIVE Split(_, _)
\* s.split(sep), sep not empty
Split(s, sep) ==
    LET i == Find(s, sep)
    IN  IF i = 0 THEN <<s>>
        ELSE <<SubSeq(s, 1, i - 1)>> \o Split(SubSeq(s, i + Len(sep), Len(s)), sep)

RECURSIVE Replace(_, _, _)
\* s.replace(old, new), old not empty
Replace(s, old, new) ==
    LET i == Find(s, old)
    IN  IF i = 0 THEN s
        ELSE SubSeq(s, 1, i - 1) \o new \o Replace(SubSeq(s, i + Len(old), Len(s)), old, new)

RECURSIVE Join(_, _)
\* sep.join(parts)
Join(parts, sep) ==
    IF parts = <<>> THEN <<>>
    ELSE IF Len(parts) = 1 THEN parts[1]
    ELSE parts[1] \o sep \o Join(Tail(parts), sep)

\* str(v): a str is itself, None is "None"
Str(v) == IF v = None THEN s_None ELSE v

(* ------------------------------- dict --------------------------------- *)

EmptyDict == <<>>

Keys(d) == {d[i].k : i \in 1..Len(d)}

\* k in d
Has(d, k) == \E i \in 1..Len(d) : d[i].k = k

\* d[k], for k in d
Get(d, k) == d[CHOOSE i \in 1..Len(d) : d[i].k = k].v

\* d[k] = v: an existing key keeps its place
Put(d, k, v) ==
    IF Has(d, k)
    THEN [i \in 1..Len(d) |-> IF d[i].k = k THEN [k |-> k, v |-> v] ELSE d[i]]
    ELSE Append(d, [k |-> k, v |-> v])

RECURSIVE Update(_, _)
\* d.update(e), also {**d, **e}
Update(d, e) ==
    IF e = <<>> THEN d
    ELSE Update(Put(d, e[1].k, e[1].v), Tail(e))

\* {f(k): v for k, v in d.items()}: a later item replaces an earlier one
\* with the same new key
RECURSIVE MapKeysFrom(_, _, _)
MapKeysFrom(d, F(_), acc) ==
    IF d = <<>> THEN acc
    ELSE MapKeysFrom(Tail(d), F, Put(acc, F(d[1].k), d[1].v))

MapKeys(d, F(_)) == MapKeysFrom(d, F, EmptyDict)

\* the context with its keys as they were written
LowerKeys_AsWritten(d) == d

\* {k.lower(): v for k, v in context.items()}
LowerKeys(d) == MapKeys(d, Lower)

(* ------------------------ Utilities.replace_placeholders -------------- *)

IsBrace(c) == c \in {"{", "}"}

\* the end of the match of \{([^{}]+)\} that starts at i, 0 when there is none
PlaceholderEnd(text, i) ==
    IF i > Len(text) \/ text[i] # "{" THEN 0
    ELSE LET stops == {j \in (i + 1)..Len(text) : IsBrace(text[j])}
         IN  IF stops = {} THEN 0
             ELSE LET j == CHOOSE j \in stops : \A h \in stops : j <= h
                  IN  IF text[j] = "}" /\ j > i + 1 THEN j ELSE 0

RECURSIVE FindPlaceholdersFrom(_, _)
FindPlaceholdersFrom(text, i) ==
    IF i > Len(text) THEN <<>>
    ELSE LET j == PlaceholderEnd(text, i)
         IN  IF j = 0 THEN FindPlaceholdersFrom(text, i + 1)
             ELSE <<SubSeq(text, i + 1, j - 1)>> \o FindPlaceholdersFrom(text, j + 1)

\* re.findall(r"\{([^{}]+)\}", text)
FindPlaceholders(text) == FindPlaceholdersFrom(text, 1)

RECURSIVE SubstitutePlaceholders(_, _, _)
SubstitutePlaceholders(text, placeholders, context_lower) ==
    IF placeholders = <<>> THEN text
    ELSE LET placeholder == placeholders[1]
             placeholder_lower == Lower(placeholder)
             text1 == IF Has(context_lower, placeholder_lower)
                      THEN Replace(text, <<"{">> \o placeholder \o <<"}">>,
                                   Str(Get(context_lower, placeholder_lower)))
                      ELSE text
         IN  SubstitutePlaceholders(text1, Tail(placeholders), context_lower)

\* replace_placeholders leaving every placeholder as it is
replace_placeholders_Unresolved(text, context) ==
    text

replace_placeholders(text, context) ==
    IF text = None THEN None
    ELSE SubstitutePlaceholders(text, FindPlaceholders(text), LowerKeys(context))

(* ------------------------ Utilities.evaluate_condition ---------------- *)

\* the printable ASCII characters in code point order, from 32; the grave
\* accent (96) is not used by any input and only holds its place
Ascii ==
    <<" ","!","\"","#","$","%","&","'","(",")","*","+",",","-",".","/",
      "0","1","2","3","4","5","6","7","8","9",":",";","<","=",">","?",
      "@","A","B","C","D","E","F","G","H","I","J","K","L","M","N","O",
      "P","Q","R","S","T","U","V","W","X","Y","Z","[","\\","]","^","_",
      "grave","a","b","c","d","e","f","g","h","i","j","k","l","m","n","o",
      "p","q","r","s","t","u","v","w","x","y","z","{","|","}","~">>

Ord(c) == 31 + CHOOSE i \in 1..Len(Ascii) : Ascii[i] = c

Digits == {"0","1","2","3","4","5","6","7","8","9"}

Whitespace == {" ", "\t", "\n", "\r", "\f"}

\* str.isdigit()
IsDigit(s) == s # <<>> /\ \A i \in 1..Len(s) : s[i] \in Digits

RECURSIVE ToInt(_)
\* int(s) of a digit-only s
ToInt(s) ==
    IF s = <<>> THEN 0
    ELSE 10 * ToInt(SubSeq(s, 1, Len(s) - 1)) + (Ord(s[Len(s)]) - 48)

\* str.strip()
Strip(s) ==
    LET inner == {i \in 1..Len(s) : s[i] \notin Whitespace}
    IN  IF inner = {} THEN <<>>
        ELSE SubSeq(s, CHOOSE i \in inner : \A j \in inner : i <= j,
                       CHOOSE i \in inner : \A j \in inner : i >= j)

\* a < b for two str: by code point, a proper prefix first
StrLess(a, b) ==
    \E i \in 1..(Len(b)) :
        /\ \A j \in 1..(i - 1) : j <= Len(a) /\ a[j] = b[j]
        /\ \/ i = Len(a) + 1
           \/ i <= Len(a) /\ Ord(a[i]) < Ord(b[i])

\* the values a comparison holds: an int, a str or None
IntValue(n) == [type |-> "int", n |-> n, s |-> <<>>]

StrValue(s) == [type |-> "str", n |-> 0, s |-> s]

NoneValue == [type |-> "NoneType", n |-> 0, s |-> <<>>]

\* Coerce leaving a digit-only str a str
Coerce_Text(v) ==
    IF v = None THEN NoneValue
    ELSE StrValue(v)

\* lines 186-190: a digit-only str becomes an int
Coerce(v) ==
    IF v = None THEN NoneValue
    ELSE IF IsDigit(v) THEN IntValue(ToInt(v))
    ELSE StrValue(v)

\* what the body of the try block comes to: a bool it returns, or an
\* exception it raises
Answer(value) == [raised |-> FALSE, value |-> value]

TypeError == [raised |-> TRUE, value |-> FALSE]

\* Compare without the lower() of lines 196-197
Compare_CaseSensitive(op, left_value, right) ==
    LET less(a, b) == IF a.type = "int" THEN a.n < b.n ELSE StrLess(a.s, b.s)
        ordered == left_value.type = right.type /\ left_value.type # "NoneType"
    IN  IF op = <<"=","=">> THEN Answer(left_value = right)
        ELSE IF op = <<"!","=">> THEN Answer(left_value # right)
        ELSE IF ~ordered THEN TypeError
        ELSE IF op = <<">","=">> THEN Answer(~less(left_value, right))
        ELSE IF op = <<"<","=">> THEN Answer(~less(right, left_value))
        ELSE IF op = <<">">> THEN Answer(less(right, left_value))
        ELSE Answer(less(left_value, right))

\* lines 195-211: the operator applied to the two values; == and != hold
\* between values of any two types, ordering an int against a str, or None
\* against anything, raises TypeError
Compare(op, left_value, right) ==
    LET both_str == left_value.type = "str" /\ right.type = "str"
        l == IF both_str THEN StrValue(Lower(left_value.s)) ELSE left_value
        r == IF both_str THEN StrValue(Lower(right.s)) ELSE right
        less(a, b) == IF a.type = "int" THEN a.n < b.n ELSE StrLess(a.s, b.s)
        ordered == l.type = r.type /\ l.type # "NoneType"
    IN  IF op = <<"=","=">> THEN Answer(l = r)
        ELSE IF op = <<"!","=">> THEN Answer(l # r)
        ELSE IF ~ordered THEN TypeError
        ELSE IF op = <<">","=">> THEN Answer(~less(l, r))
        ELSE IF op = <<"<","=">> THEN Answer(~less(r, l))
        ELSE IF op = <<">">> THEN Answer(less(r, l))
        ELSE Answer(less(l, r))

operators == << <<"=","=">>, <<"!","=">>, <<">","=">>, <<"<","=">>, <<">">>, <<"<">> >>

Padded(op) == <<" ">> \o op \o <<" ">>

\* lines 178-183: whether the right side is a quoted literal
IsQuoted(right) ==
    \/ StartsWith(right, <<"'">>) /\ EndsWith(right, <<"'">>)
    \/ StartsWith(right, <<"\"">>) /\ EndsWith(right, <<"\"">>)

\* lines 162-211, for the first operator found in the condition
EvaluateComparison(op, condition, context_lower) ==
    LET parts == Split(condition, Padded(op))
        left == Strip(parts[1])
        right == Strip(parts[2])
        quoted == IsQuoted(right)
        right_text == IF quoted THEN SubSeq(right, 2, Len(right) - 1) ELSE right
    IN  IF Len(parts) # 2 THEN Answer(FALSE)
        ELSE IF left = <<>> \/ right = <<>> THEN Answer(FALSE)
        ELSE IF ~Has(context_lower, Lower(left)) THEN Answer(FALSE)
        ELSE IF ~quoted /\ ~IsDigit(right) THEN Answer(FALSE)
        ELSE Compare(op, Coerce(Get(context_lower, Lower(left))), Coerce(right_text))

\* EmptyCondition taking the empty str for a condition to evaluate
EmptyCondition_NoneOnly(condition) ==
    condition = None

\* line 125: not condition, for a condition that is None or a str
EmptyCondition(condition) ==
    condition = None \/ condition = <<>>

\* lines 214-215: except Exception: return False
ExceptReturnsFalse(body) ==
    IF body.raised THEN FALSE ELSE body.value

RECURSIVE evaluate_condition(_, _)
evaluate_condition(condition, context) ==
    LET context_lower == LowerKeys(context)
        NotBlank(part) == Strip(part) # <<>>
        found == {i \in 1..Len(operators) : Contains(condition, Padded(operators[i]))}
        body ==
            IF Contains(condition, s_or)
            THEN LET parts == Split(condition, s_or)
                 IN  Answer(/\ \A i \in 1..Len(parts) : NotBlank(parts[i])
                            /\ \E i \in 1..Len(parts) :
                                  evaluate_condition(Strip(parts[i]), context))
            ELSE IF Contains(condition, s_and)
            THEN LET parts == Split(condition, s_and)
                 IN  Answer(/\ \A i \in 1..Len(parts) : NotBlank(parts[i])
                            /\ \A i \in 1..Len(parts) :
                                  evaluate_condition(Strip(parts[i]), context))
            ELSE IF Contains(condition, s_is_None)
            THEN LET key == Strip(Split(condition, s_is_None)[1])
                 IN  Answer(/\ key # <<>>
                            /\ \/ ~Has(context_lower, Lower(key))
                               \/ Get(context_lower, Lower(key)) = None)
            ELSE IF Contains(condition, s_is_not_None)
            THEN LET key == Strip(Split(condition, s_is_not_None)[1])
                 IN  Answer(/\ key # <<>>
                            /\ Has(context_lower, Lower(key))
                            /\ Get(context_lower, Lower(key)) # None)
            ELSE IF found = {} THEN Answer(FALSE)
            ELSE EvaluateComparison(operators[CHOOSE i \in found : \A j \in found : i <= j],
                                    condition, context_lower)
    IN  IF EmptyCondition(condition) THEN TRUE
        ELSE ExceptReturnsFalse(body)

(* --------------------------- models/workflow.py ----------------------- *)

\* An absent Optional[Dict[str, str]]: no dict holds the key None
NoDict == <<[k |-> None, v |-> None]>>

Action(action_type, name, condition, parameters) ==
    [action_type |-> action_type, name |-> name, display |-> None,
     condition |-> condition, parameters |-> parameters]

\* An absent Optional[List[Action]]: no Action has the action_type None
NoActions == <<Action(None, None, None, NoDict)>>

Workflow(name, actions, error_actions, success_details) ==
    [name |-> name, description |-> None, actions |-> actions,
     error_actions |-> error_actions, parameters |-> NoDict,
     success_details |-> success_details]

\* self._workflow is None: no Workflow has the name None
NoWorkflow == Workflow(None, <<>>, NoActions, None)

(* --------------------------- models/messaging.py ---------------------- *)

WorkflowMessage(message_id, config_name, parameters) ==
    [message_id |-> message_id, config_name |-> config_name,
     parameters |-> parameters]

(* ------------------------------ inputs -------------------------------- *)

SeqsUpTo(S, n) == UNION {[1..len -> S] : len \in 0..n}

ActCreateRecord == Action(s_create_some_record, s_Create_Some_Record, None, NoDict)

ActHello == Action(s_hello_world, None, None, <<[k |-> s_user_name, v |-> s_Bob_record]>>)

ActHelloNoUser == Action(s_hello_world, None, None, NoDict)

ActCreateFile == Action(s_create_some_file, None, None, NoDict)

ActDummyIfFlag == Action(s_dummy, None, s_cond_flag_yes, NoDict)

ActDummy == Action(s_dummy, None, None, NoDict)

ActNotRegistered == Action(s_not_registered, None, None, NoDict)

\* an action of the application's handler whose parameter has the name of
\* a context key
ActNoResult == Action(s_no_result, None, None, <<[k |-> s_workflow_name, v |-> s_shadowed]>>)

PrimaryPool ==
    {ActCreateRecord, ActHello, ActHelloNoUser, ActCreateFile, ActDummyIfFlag,
     ActNotRegistered}

ErrorPool == {ActDummy, ActNotRegistered}

Workflows ==
    {Workflow(s_Test_Workflow, actions, error_actions, success_details) :
        actions \in SeqsUpTo(PrimaryPool, MaxActions),
        error_actions \in {NoActions} \cup SeqsUpTo(ErrorPool, MaxErrorActions),
        success_details \in {None, s_record_id_template}}

\* workflows built by the application and handed to MessageProcessor(workflow)
SuppliedPool == {ActCreateRecord, ActHello, ActHelloNoUser, ActNoResult}

SuppliedErrorPool == {ActNoResult}

\* Workflow.parameters of a workflow that declares a global parameter
DeclaredParameters == <<[k |-> s_flag, v |-> s_no]>>

WithParameters(workflow, parameters) == [workflow EXCEPT !.parameters = parameters]

SuppliedWorkflows ==
    {Workflow(s_Test_Workflow, actions, error_actions, success_details) :
        actions \in SeqsUpTo(SuppliedPool, MaxActions),
        error_actions \in {NoActions} \cup SeqsUpTo(SuppliedErrorPool, MaxErrorActions),
        success_details \in {None, s_record_id_template}}
    \cup
    {WithParameters(Workflow(s_Test_Workflow, actions, NoActions, None), DeclaredParameters) :
        actions \in SeqsUpTo(SuppliedPool, MaxActions)}

Messages ==
    {WorkflowMessage(s_m1, s_missing_cfg, EmptyDict)} \cup
    {WorkflowMessage(s_m1, s_wf_cfg, parameters) :
        parameters \in {EmptyDict,
                        <<[k |-> s_flag, v |-> s_yes]>>,
                        <<[k |-> s_result, v |-> s_Error]>>}}

(* --------------------------- action_registry.py ----------------------- *)

\* get_handler of a type that was never registered
NoClass == "None"

\* default_registry._action_registry once the sample actions are imported,
\* and handlers of the application: NoResultAction under "no_result",
\* FailedResultAction, which returns {"result": "Failed"}, and
\* EmptyResultAction, which returns {"result": ""}
default_registry ==
    <<[k |-> s_dummy, v |-> "DummyAction"],
      [k |-> s_hello_world, v |-> "HelloWorldAction"],
      [k |-> s_create_some_record, v |-> "CreateSomeRecordAction"],
      [k |-> s_create_some_file, v |-> "CreateSomeFileAction"],
      [k |-> s_no_result, v |-> "NoResultAction"],
      [k |-> s_dummy_ret_global, v |-> "DummyRetGlobalAction"],
      [k |-> s_failed_result, v |-> "FailedResultAction"],
      [k |-> s_empty_result, v |-> "EmptyResultAction"]>>

\* register keeping the class a type was first registered with
register_FirstWins(registry, action_type, handler_class) ==
    IF Has(registry, action_type) THEN registry
    ELSE Put(registry, action_type, handler_class)

\* ActionRegistry.register, line 30
register(registry, action_type, handler_class) ==
    Put(registry, action_type, handler_class)

\* ActionRegistry.get_handler, line 46: dict.get
registry_get(registry, action_type) ==
    IF Has(registry, action_type) THEN Get(registry, action_type)
    ELSE NoClass

get_handler(action_type) == registry_get(default_registry, action_type)

(* --------------------------- action_handler.py ------------------------ *)

\* os.environ of a process that passed Utilities.verify_settings
os_environ == {s_STORAGE_ENV, s_SERVICE_BUS_ENV}

required_env_vars(cls) == <<>>

required_fields(cls) == IF cls = "HelloWorldAction" THEN <<s_user_name>> ELSE <<>>

\* a call that returned value, or raised an exception whose str() is error
Returned(value) == [raised |-> FALSE, error |-> None, value |-> value]

Raised(error) == [raised |-> TRUE, error |-> error, value |-> None]

Quoted(s) == <<"'">> \o s \o <<"'">>

\* str() of a list of str
ReprList(l) ==
    <<"[">> \o Join([i \in 1..Len(l) |-> Quoted(l[i])], s_comma_sp) \o <<"]">>

\* validate_inputs accepting every context
validate_inputs_NoCheck(cls, context) ==
    Returned(None)

validate_inputs(cls, context) ==
    LET NotInEnviron(env_var) == env_var \notin os_environ
        NotInContext(field) == ~Has(context, field)
        missing_env_vars == SelectSeq(required_env_vars(cls), NotInEnviron)
        missing_fields == SelectSeq(required_fields(cls), NotInContext)
    IN  IF missing_env_vars # <<>>
        THEN Raised(s_Missing_required_env \o ReprList(missing_env_vars))
        ELSE IF missing_fields # <<>>
        THEN Raised(s_Missing_required_fields \o ReprList(missing_fields))
        ELSE Returned(None)

(* ------------------------- utils/blob_storage.py ---------------------- *)

\* the name of a blob of the message's folder in the working container
BlobName(message_id, file_name) == message_id \o <<"/">> \o file_name

\* upload_file: the blob is written, or the service fails and it raises
upload_file(store, message_id, file_name, content, ok) ==
    IF ok THEN Put(store, BlobName(message_id, file_name), content) ELSE store

(* ------------------------ sample_files/actions ------------------------ *)

\* what the storage service does during one execute
IOOutcomes(cls) ==
    IF cls = "CreateSomeFileAction" THEN {"ok", "client_fails", "upload_fails"}
    ELSE {"ok"}

\* execute: the handler's outcome and the blob store it leaves
execute(cls, context, store, io) ==
    IF cls = "DummyAction"
    THEN [call |-> Returned(<<[k |-> s_result, v |-> s_Success]>>), store |-> store]
    ELSE IF cls = "CreateSomeRecordAction"
    THEN [call |-> Returned(<<[k |-> s_record_id, v |-> s_1234567890],
                              [k |-> s_result, v |-> s_success]>>),
          store |-> store]
    ELSE IF cls = "NoResultAction"
    THEN [call |-> Returned(EmptyDict), store |-> store]
    ELSE IF cls = "DummyRetGlobalAction"
    THEN [call |-> Returned(<<[k |-> s_workflow_wf_param_set_in_action,
                               v |-> s_A_new_value_from_action],
                              [k |-> s_workflow_wf_param_set_in_definition,
                               v |-> s_A_new_value_from_definition],
                              [k |-> s_result, v |-> s_success]>>),
          store |-> store]
    ELSE IF cls = "FailedResultAction"
    THEN [call |-> Returned(<<[k |-> s_result, v |-> s_Failed]>>), store |-> store]
    ELSE IF cls = "EmptyResultAction"
    THEN [call |-> Returned(<<[k |-> s_result, v |-> <<>>]>>), store |-> store]
    ELSE IF cls = "HelloWorldAction"
    THEN IF ~Has(context, s_user_name)
         THEN [call |-> Raised(Quoted(s_user_name)), store |-> store]
         ELSE [call |-> Returned(<<[k |-> s_greeting,
                                    v |-> s_Hello_comma \o Str(Get(context, s_user_name)) \o <<"!">>],
                                   [k |-> s_result, v |-> s_success]>>),
               store |-> store]
    ELSE \* CreateSomeFileAction
         IF io = "client_fails"
         THEN [call |-> Raised(s_storage_unavailable), store |-> store]
         ELSE IF io = "upload_fails"
         THEN [call |-> Returned(<<[k |-> s_error, v |-> s_storage_unavailable],
                                   [k |-> s_result, v |-> s_error]>>),
               store |-> store]
         ELSE [call |-> Returned(<<[k |-> s_result, v |-> s_success]>>),
               store |-> upload_file(store, Get(context, s_workflow_message_id),
                                     s_test_txt, s_Hello_world_bang, TRUE)]

\* the input view as execute leaves it: NoResultAction is a handler that
\* writes to the dict it is given (context["workflow.result"] = "Error") and
\* returns {}; the sample handlers only read theirs
mutated_view(cls, context) ==
    IF cls = "NoResultAction" THEN Put(context, s_workflow_result, s_Error)
    ELSE context

(* ------------------------ message_status_client.py -------------------- *)

StatusEntity(status, display, details, reference_id) ==
    [Status |-> status, Display |-> display, Details |-> details,
     ReferenceId |-> reference_id]

\* save_message_status: the table after the upsert; when the table service
\* fails the entity is not written and the call raises
save_message_status(table, message_id, status, display, details, ok) ==
    IF ok THEN Put(table, message_id, StatusEntity(status, display, details, None))
    ELSE table

(* ------------------------- utils/utilities.py ------------------------- *)

\* the documents the workflows container may hold under a blob name
Absent == [kind |-> "absent", workflow |-> NoWorkflow]

Malformed == [kind |-> "malformed", workflow |-> NoWorkflow]

WorkflowFolder(blob_name) ==
    IF blob_name = s_wf_cfg \o s_json_suffix
    THEN {Malformed} \cup {[kind |-> "workflow", workflow |-> w] : w \in Workflows}
    ELSE {Absent}

ConfigBlobName(workflow_config_name) ==
    IF EndsWith(workflow_config_name, s_json_suffix) THEN workflow_config_name
    ELSE workflow_config_name \o s_json_suffix

\* load_workflow_config, given the document found under the blob name: a
\* missing blob downloads as None, which does not validate, like a
\* malformed document
load_workflow_config(document) ==
    IF document.kind = "workflow" THEN document.workflow ELSE NoWorkflow

(* ------------------------- message_processor.py ----------------------- *)

VARIABLES
    self_workflow,  \* MessageProcessor._workflow
    pc,             \* where process_message stands
    msg,            \* the workflow_message being processed
    context,        \* the context dict of process_message
    idx,            \* the position of the running loop in its action list
    is_error,       \* is_error of _execute_workflow
    exc,            \* str() of the exception being handled or propagated
    table,          \* the MessageStatus table: RowKey -> entity
    store,          \* the working container: blob name -> content
    statusLog,      \* every save_message_status call of this process_message
    calls,          \* every _execute_action, validate_inputs and execute call
    context_id,     \* which dict object the name context is bound to
    returned,       \* the dicts process_message has returned to its caller
    sb_queue,       \* the Service Bus queue: the messages not yet completed
    self_receiver,  \* QueueClient._receiver
    receive_calls,  \* every receive_message call made so far, and its outcome
    action_registry, \* ActionRegistry._action_registry of a registry of its own
    registrations,  \* every register call made on that registry, in order
    condition,      \* the condition given to Utilities.evaluate_condition
    cond_parts,     \* how the caller wrote that condition: its parts and connectives
    cond_context,   \* the context given with it
    cond_outcome,   \* whether evaluate_condition was called, and what it returned
    template,       \* the text given to Utilities.replace_placeholders
    tpl_segments,   \* how the caller wrote that text: its pieces in order
    tpl_context,    \* the context given with it
    tpl_outcome,    \* whether replace_placeholders was called, and what it returned
    wi_pc,          \* where the WorkInitiator stands
    wi_message,     \* WorkInitiator._message
    wi_queue        \* the queue the initiator sends to: messages and their locks

\* QueueClient and its queue
queueVars == <<sb_queue, self_receiver, receive_calls>>

\* an ActionRegistry
registryVars == <<action_registry, registrations>>

\* a call of Utilities.evaluate_condition
conditionVars == <<condition, cond_parts, cond_context, cond_outcome>>

\* a call of Utilities.replace_placeholders
placeholderVars == <<template, tpl_segments, tpl_context, tpl_outcome>>

\* a WorkInitiator and the queue it sends to
initiatorVars == <<wi_pc, wi_message, wi_queue>>

\* what no step of MessageProcessor touches
outsideVars == <<queueVars, registryVars, conditionVars, placeholderVars, initiatorVars>>

\* what the engine's steps leave alone: the caller's references and the
\* other objects
envVars == <<returned, outsideVars>>

\* MessageProcessor and the storage it works on
engineVars == <<self_workflow, pc, msg, context, idx, is_error, exc, table, store,
                statusLog, calls, context_id, returned>>

vars == <<self_workflow, pc, msg, context, idx, is_error, exc, table, store,
          statusLog, calls, context_id, envVars>>

\* a QueueClient just constructed, on an empty queue
QueueIdle ==
    /\ sb_queue = <<>>
    /\ self_receiver = "None"
    /\ receive_calls = <<>>

\* ActionRegistry.__init__
RegistryIdle ==
    /\ action_registry = EmptyDict
    /\ registrations = <<>>

\* a condition written from parts joined by connectives
Written(parts, seps) == [parts |-> parts, seps |-> seps]

NotCalled == [called |-> FALSE, value |-> FALSE]

\* no condition to evaluate
ConditionIdle ==
    /\ condition = None
    /\ cond_parts = Written(<<>>, <<>>)
    /\ cond_context = EmptyDict
    /\ cond_outcome = NotCalled

NotReplaced == [called |-> FALSE, value |-> None]

\* no text to replace placeholders in
PlaceholderIdle ==
    /\ template = None
    /\ tpl_segments = <<>>
    /\ tpl_context = <<>>
    /\ tpl_outcome = NotReplaced

NoMessage == WorkflowMessage(None, None, NoDict)

\* no WorkInitiator constructed, nothing sent
InitiatorIdle ==
    /\ wi_pc = "none"
    /\ wi_message = NoMessage
    /\ wi_queue = <<>>

\* before the first call nothing was returned
EnvIdle ==
    /\ returned = <<>>
    /\ QueueIdle
    /\ RegistryIdle
    /\ ConditionIdle
    /\ PlaceholderIdle
    /\ InitiatorIdle

\* a dict object: its identity and its items
DictObject(id, items) == [id |-> id, items |-> items]

\* NewContext handing out the dict of the call before, as a context kept
\* in an attribute of the processor would be
NewContext_Reused(previous) ==
    previous

\* line 48, context = {}: a new dict object that holds nothing, whatever
\* the name was bound to before
NewContext(previous) ==
    DictObject(previous.id + 1, EmptyDict)

StatusCall(status, display, details, ok) ==
    [status |-> status, display |-> display, details |-> details, ok |-> ok]

\* One entry of calls, for the action at index of the primary or the error
\* list.  op is "_execute_action", "validate_inputs" or "execute" when that
\* is called, and "returned" or "raised" when _execute_action ends.  data
\* holds, for a handler call, the input view the handler is given, for
\* "returned" the output context, and for "raised" the exception text
\* under the key error.
HandlerCall(op, kind, index, data) ==
    [op |-> op, kind |-> kind, index |-> index, data |-> data]

ActionName(action) ==
    IF action.name # None /\ action.name # <<>> THEN action.name ELSE action.action_type

\* ActionPrefix giving every action the namespace of the control fields
ActionPrefix_Workflow(action) == s_workflow

ActionPrefix(action) == ReplaceChar(ActionName(action), " ", "_")

RECURSIVE ResolveParameters(_, _)
\* the loop over action.parameters.items()
ResolveParameters(parameters, ctx) ==
    IF parameters = <<>> THEN EmptyDict
    ELSE Put(ResolveParameters(SubSeq(parameters, 1, Len(parameters) - 1), ctx),
             parameters[Len(parameters)].k,
             replace_placeholders(parameters[Len(parameters)].v, ctx))

\* WithDefaultResult assuming failure when the result key is missing
WithDefaultResult_Error(action_output_context) ==
    IF ~Has(action_output_context, s_result)
    THEN Put(action_output_context, s_result, s_Error)
    ELSE action_output_context

\* lines 228-229: if no result key found assume success
WithDefaultResult(action_output_context) ==
    IF ~Has(action_output_context, s_result)
    THEN Put(action_output_context, s_result, s_Success)
    ELSE action_output_context

\* ContextAfterCall with action_input_context being the caller's dict itself
ContextAfterCall_Aliased(ctx, view) ==
    view

\* line 219: action_input_context is a new dict, so the caller's context is
\* as it was whatever became of the view
ContextAfterCall(ctx, view) ==
    ctx

\* _execute_action: the call's outcome, the handler calls it made, the blob
\* store it leaves and the caller's context after it
ExecuteAction(action, ctx, blobs, io, kind, index) ==
    LET action_handler_class == get_handler(action.action_type)
        entered == HandlerCall("_execute_action", kind, index, EmptyDict)
        action_parameters ==
            IF action.parameters # NoDict THEN ResolveParameters(action.parameters, ctx)
            ELSE EmptyDict
        action_input_context == Update(ctx, action_parameters)
        validated == validate_inputs(action_handler_class, action_input_context)
        validate_call == HandlerCall("validate_inputs", kind, index, action_input_context)
        executed == execute(action_handler_class, action_input_context, blobs, io)
        execute_call == HandlerCall("execute", kind, index, action_input_context)
        context_after ==
            ContextAfterCall(ctx, mutated_view(action_handler_class, action_input_context))
        action_output_context == WithDefaultResult(executed.call.value)
        not_found == s_Action_handler_not_found \o action.action_type
        Ended(call) ==
            IF call.raised
            THEN HandlerCall("raised", kind, index, <<[k |-> s_error, v |-> call.error]>>)
            ELSE HandlerCall("returned", kind, index, call.value)
    IN  IF action_handler_class = NoClass
        THEN [call |-> Raised(not_found),
              calls |-> <<entered, Ended(Raised(not_found))>>, store |-> blobs,
              context |-> ctx]
        ELSE IF validated.raised
        THEN [call |-> validated,
              calls |-> <<entered, validate_call, Ended(validated)>>, store |-> blobs,
              context |-> ContextAfterCall(ctx, action_input_context)]
        ELSE IF executed.call.raised
        THEN [call |-> executed.call,
              calls |-> <<entered, validate_call, execute_call, Ended(executed.call)>>,
              store |-> executed.store, context |-> context_after]
        ELSE [call |-> Returned(action_output_context),
              calls |-> <<entered, validate_call, execute_call,
                          Ended(Returned(action_output_context))>>,
              store |-> executed.store, context |-> context_after]

\* ResultIsError taking every result other than "success" for a failure
ResultIsError_UnlessSuccess(action_context) ==
    Lower(Get(action_context, s_result)) # s_success

\* ResultIsError comparing without lower(): "error" would not be a failure
ResultIsError_CaseSensitive(action_context) ==
    Get(action_context, s_result) = s_Error

\* line 156: the truth value of
\* action_context["result"] and action_context["result"].lower() == "error"
ResultIsError(action_context) ==
    LET result == Get(action_context, s_result)
    IN  result # <<>> /\ Lower(result) = s_error

\* CaughtActionContext dropping the exception text
CaughtActionContext_NoText(error) ==
    <<[k |-> s_result, v |-> s_Error]>>

\* line 161: the action context that stands for a caught exception
CaughtActionContext(error) ==
    <<[k |-> s_result, v |-> s_Error], [k |-> s_error, v |-> error]>>

\* AfterPrimaryAction testing workflow.error_actions alone at line 174
AfterPrimaryAction_AlwaysErrorActions(failed, workflow, index) ==
    IF ~failed /\ index < Len(workflow.actions) THEN "run"
    ELSE IF workflow.error_actions # NoActions /\ workflow.error_actions # <<>>
    THEN "error_actions" ELSE "after_run"

\* lines 169-174 and the end of the loop: where _execute_workflow goes after
\* the pass for the action at index
AfterPrimaryAction(failed, workflow, index) ==
    IF failed
    THEN IF workflow.error_actions # NoActions /\ workflow.error_actions # <<>>
         THEN "error_actions" ELSE "after_run"
    ELSE IF index = Len(workflow.actions) THEN "after_run" ELSE "run"

\* AfterErrorAction without the break of line 184
AfterErrorAction_NoBreak(raised, workflow, index) ==
    IF index = Len(workflow.error_actions) THEN "after_run" ELSE "error_actions"

\* lines 180-184 and the end of the loop: where _execute_workflow goes after
\* the pass for the error action at index
AfterErrorAction(raised, workflow, index) ==
    IF raised \/ index = Len(workflow.error_actions) THEN "after_run"
    ELSE "error_actions"

\* PrefixKeys merging the action context under its bare keys
PrefixKeys_Unprefixed(action_prefix, action_context) ==
    action_context

\* {f"{action_prefix}.{key}": value for key, value in action_context.items()}
PrefixKeys(action_prefix, action_context) ==
    LET Prefixed(key) == action_prefix \o <<".">> \o key
    IN  MapKeys(action_context, Prefixed)

Init ==
    /\ self_workflow \in {NoWorkflow} \cup Workflows
    /\ pc = "idle"
    /\ msg = NoMessage
    /\ context = EmptyDict
    /\ idx = 0
    /\ is_error = FALSE
    /\ exc = None
    /\ table = EmptyDict
    /\ store = EmptyDict
    /\ statusLog = <<>>
    /\ calls = <<>>
    /\ context_id = 0
    /\ EnvIdle

\* the documents load_workflow_config may find, when line 59 is reached,
\* among those the workflows container may hold under the config's name
DocumentsRead(workflow, documents, processing_ok) ==
    IF processing_ok /\ workflow = NoWorkflow THEN documents ELSE {Absent}

\* whether the save of line 65 succeeds, when line 65 is reached
ErrorSaves(workflow, document, processing_ok) ==
    IF processing_ok /\ workflow = NoWorkflow /\ load_workflow_config(document) = NoWorkflow
    THEN BOOLEAN ELSE {TRUE}

\* MergeParameters keeping the control fields: a parameter with the name of
\* a key already seeded is dropped
MergeParameters_ControlFieldsWin(seeded, parameters) ==
    Update(parameters, seeded)

\* lines 75-76: context.update of the prefixed message parameters, after
\* the control fields are in the context and with no check of the keys
MergeParameters(seeded, parameters) ==
    Update(seeded, parameters)

\* process_message, lines 43-76: up to the call of _execute_workflow, for
\* one message and the documents its config name may stand for
process_message(workflow_message, documents) ==
    /\ pc = "idle"
    /\ \E processing_ok \in BOOLEAN :
       \E document \in DocumentsRead(self_workflow, documents, processing_ok) :
       \E error_ok \in ErrorSaves(self_workflow, document, processing_ok) :
        LET message_id == workflow_message.message_id
            fresh == NewContext(DictObject(context_id, context))
            context0 == Put(Put(Put(fresh.items,
                            s_workflow_message_id, Str(message_id)),
                            s_workflow_config_name, workflow_message.config_name),
                            s_workflow_result, s_Processing)
            workflow == IF self_workflow = NoWorkflow THEN load_workflow_config(document)
                        ELSE self_workflow
            err == s_Missing_or_malformed \o workflow_message.config_name \o s_quote_dot
            context1 == Put(context0, s_workflow_name, workflow.name)
            PrefixWorkflow(key) == s_workflow_dot \o key
            context2 == IF workflow_message.parameters # EmptyDict
                        THEN MergeParameters(context1,
                                             MapKeys(workflow_message.parameters, PrefixWorkflow))
                        ELSE context1
            table1 == save_message_status(table, message_id, s_Processing, None, None, processing_ok)
            log1 == <<StatusCall(s_Processing, None, None, processing_ok)>>
        IN  /\ msg' = workflow_message
            /\ UNCHANGED <<is_error, store, calls, envVars>>
            /\ context_id' = IF processing_ok THEN fresh.id ELSE context_id
            /\ table' = IF processing_ok /\ workflow = NoWorkflow
                        THEN save_message_status(table1, message_id, s_Error, err, None, error_ok)
                        ELSE table1
            /\ statusLog' = IF processing_ok /\ workflow = NoWorkflow
                            THEN Append(log1, StatusCall(s_Error, err, None, error_ok))
                            ELSE log1
            /\ IF ~processing_ok
               THEN /\ pc' = "raised"
                    /\ exc' = s_table_unavailable
                    /\ UNCHANGED <<self_workflow, context, idx>>
               ELSE IF workflow = NoWorkflow
               THEN /\ self_workflow' = workflow
                    /\ idx' = idx
                    /\ IF error_ok
                       THEN /\ pc' = "returned"
                            /\ exc' = exc
                            /\ context' = Put(context0, s_workflow_result, s_Error)
                       ELSE /\ pc' = "raised"
                            /\ exc' = s_table_unavailable
                            /\ context' = context0
               ELSE /\ self_workflow' = workflow
                    /\ context' = context2
                    /\ exc' = exc
                    /\ idx' = 1
                    /\ pc' = IF workflow.actions = <<>> THEN "after_run" ELSE "run"

ProcessMessage ==
    \E workflow_message \in Messages :
        process_message(workflow_message,
                        WorkflowFolder(ConfigBlobName(workflow_message.config_name)))

\* NextIndex staying on the action just dispatched, as a loop that forgets
\* to advance would
NextIndex_Same(index) == index

\* lines 137 and 176: the for loop takes the next element of the list
NextIndex(index) == index + 1

\* _execute_workflow, lines 137-171: one pass of the loop over workflow.actions
ExecutePrimaryAction ==
    /\ pc = "run"
    /\ \E executing_ok \in BOOLEAN :
       \E io \in IOOutcomes(get_handler(self_workflow.actions[idx].action_type)) :
        LET workflow == self_workflow
            action == workflow.actions[idx]
            action_name == ActionName(action)
            action_prefix == ActionPrefix(action)
            action_display == IF action.display # None /\ action.display # <<>> THEN action.display
                              ELSE s_Executing_sp \o action_name \o s_dots
            status == s_Executing_colon \o action_name
            context1 == Put(context, s_workflow_last_action, action_name)
            done == ExecuteAction(action, context1, store, io, "primary", idx)
            failed == IF done.call.raised THEN TRUE
                      ELSE ResultIsError(done.call.value)
            action_context ==
                IF done.call.raised THEN CaughtActionContext(done.call.error)
                ELSE done.call.value
            context2 == Update(done.context, PrefixKeys(action_prefix, action_context))
        IN  /\ statusLog' = Append(statusLog, StatusCall(status, action_display, None, executing_ok))
            /\ table' = save_message_status(table, Get(context, s_workflow_message_id),
                                            status, action_display, None, executing_ok)
            /\ UNCHANGED <<self_workflow, msg, context_id, envVars>>
            /\ IF ~executing_ok
               THEN /\ pc' = "except"
                    /\ exc' = s_table_unavailable
                    /\ UNCHANGED <<context, idx, is_error, store, calls>>
               ELSE /\ calls' = calls \o done.calls
                    /\ store' = done.store
                    /\ is_error' = failed
                    /\ exc' = exc
                    /\ context' = IF failed THEN Put(context2, s_workflow_result, s_Error)
                                  ELSE context2
                    /\ pc' = AfterPrimaryAction(failed, workflow, idx)
                    /\ idx' = IF pc' = "run" THEN NextIndex(idx) ELSE 1

\* ErrorActionStops taking a returned result of "error" for a failure, as
\* the primary loop does
ErrorActionStops_OnErrorResult(call) ==
    call.raised \/ ResultIsError(call.value)

\* lines 180-184: the loop breaks when _execute_action raised; what it
\* returned is not looked at
ErrorActionStops(call) ==
    call.raised

\* ContextAfterErrorAction merging the output as the primary loop does
ContextAfterErrorAction_Merged(ctx, error_action, call) ==
    IF call.raised THEN ctx
    ELSE Update(ctx, PrefixKeys(ActionPrefix(error_action), call.value))

\* line 181: what _execute_action returns is not assigned, so the context
\* is as the call left it
ContextAfterErrorAction(ctx, error_action, call) ==
    ctx

\* _execute_workflow, lines 176-184: one pass of the loop over workflow.error_actions
ExecuteErrorAction ==
    /\ pc = "error_actions"
    /\ \E io \in IOOutcomes(get_handler(self_workflow.error_actions[idx].action_type)) :
        LET error_action == self_workflow.error_actions[idx]
            done == ExecuteAction(error_action, context, store, io, "error", idx)
        IN  /\ calls' = calls \o done.calls
            /\ store' = done.store
            /\ idx' = NextIndex(idx)
            /\ pc' = AfterErrorAction(ErrorActionStops(done.call), self_workflow, idx)
            /\ context' = ContextAfterErrorAction(done.context, error_action, done.call)
            /\ UNCHANGED <<self_workflow, msg, is_error, exc, table, statusLog,
                           context_id, envVars>>

\* process_message, lines 85-97: _execute_workflow has returned the context
CompleteMessage ==
    /\ pc = "after_run"
    /\ \E success_ok \in BOOLEAN :
        LET details == IF self_workflow.success_details # None /\ self_workflow.success_details # <<>>
                       THEN replace_placeholders(self_workflow.success_details, context)
                       ELSE None
            reraise == Lower(Get(context, s_workflow_result)) = s_error
        IN  /\ UNCHANGED <<self_workflow, msg, idx, is_error, store, calls,
                           context_id, envVars>>
            /\ IF reraise
               THEN /\ pc' = "except"
                    /\ exc' = s_No_active_exception
                    /\ UNCHANGED <<context, table, statusLog>>
               ELSE /\ statusLog' = Append(statusLog, StatusCall(s_Success, None, details, success_ok))
                    /\ table' = save_message_status(table, msg.message_id, s_Success, None,
                                                    details, success_ok)
                    /\ IF success_ok
                       THEN /\ pc' = "returned"
                            /\ exc' = exc
                            /\ context' = Put(context, s_workflow_result, s_Success)
                       ELSE /\ pc' = "except"
                            /\ exc' = s_table_unavailable
                            /\ context' = context

\* process_message, lines 99-117: the except clause
HandleException ==
    /\ pc = "except"
    /\ \E outcome \in {"ok", "status_fails", "client_fails", "upload_fails"} :
        LET has_last_action == Has(context, s_workflow_last_action)
            err == s_Workflow_execution_failed \o self_workflow.name \o s_Last_action_was
                   \o Str(Get(context, s_workflow_last_action)) \o s_quote_dot
            error_json == [error |-> exc, workflow |-> self_workflow.name,
                           config_name |-> msg.config_name, context |-> context]
        IN  /\ UNCHANGED <<self_workflow, msg, context, idx, is_error, calls,
                           context_id, envVars>>
            /\ IF ~has_last_action
               THEN /\ pc' = "raised"
                    /\ exc' = Quoted(s_workflow_last_action)
                    /\ UNCHANGED <<table, store, statusLog>>
               ELSE /\ statusLog' = Append(statusLog, StatusCall(s_Error, err, None,
                                                                 outcome # "status_fails"))
                    /\ table' = save_message_status(table, msg.message_id, s_Error, err, None,
                                                    outcome # "status_fails")
                    /\ store' = IF outcome = "ok"
                                THEN upload_file(store, msg.message_id, s_error_json, error_json, TRUE)
                                ELSE store
                    /\ pc' = IF outcome = "ok" THEN "returned" ELSE "raised"
                    /\ exc' = IF outcome \in {"client_fails", "upload_fails"}
                              THEN s_storage_unavailable
                              ELSE IF outcome = "status_fails" THEN s_table_unavailable
                              ELSE exc

Next ==
    \/ ProcessMessage
    \/ ExecutePrimaryAction
    \/ ExecuteErrorAction
    \/ CompleteMessage
    \/ HandleException

Spec == Init /\ [][Next]_vars

\* a processor constructed with a workflow, as test_process.py does
InitSupplied ==
    /\ self_workflow \in SuppliedWorkflows
    /\ pc = "idle"
    /\ msg = NoMessage
    /\ context = EmptyDict
    /\ idx = 0
    /\ is_error = FALSE
    /\ exc = None
    /\ table = EmptyDict
    /\ store = EmptyDict
    /\ statusLog = <<>>
    /\ calls = <<>>
    /\ context_id = 0
    /\ EnvIdle

SpecSupplied == InitSupplied /\ [][Next]_vars

(* ------------- workflows of handlers that return unusual outputs ------ *)

ActRetGlobal == Action(s_dummy_ret_global, None, None, NoDict)

ActFailedResult == Action(s_failed_result, None, None, NoDict)

ActEmptyResult == Action(s_empty_result, None, None, NoDict)

\* a dummy action that is given the name "workflow"
ActNamedWorkflow == Action(s_dummy, s_workflow, None, NoDict)

HandlerPool ==
    {ActRetGlobal, ActFailedResult, ActEmptyResult, ActNotRegistered, ActNamedWorkflow}

\* error actions that succeed or return result "error" without raising
\* (create_some_file, whose upload may fail), and that raise: from execute,
\* from validate_inputs, or for want of a handler
HandlerErrorPool == {ActCreateFile, ActHelloNoUser, ActNotRegistered}

HandlerWorkflows ==
    {Workflow(s_Test_Workflow, actions, error_actions, None) :
        actions \in SeqsUpTo(HandlerPool, MaxActions),
        error_actions \in {NoActions} \cup SeqsUpTo(HandlerErrorPool, MaxErrorActions)}

\* messages whose parameters have the names of the control fields, or of
\* the value dummy_ret_global returns
HandlerMessages ==
    {WorkflowMessage(s_m1, s_wf_cfg, parameters) :
        parameters \in {EmptyDict,
                        <<[k |-> s_result, v |-> s_Error]>>,
                        <<[k |-> s_wf_param_set_in_definition, v |-> s_from_message],
                          [k |-> s_message_id, v |-> s_m2],
                          [k |-> s_config_name, v |-> s_other_cfg]>>}}

ProcessHandlerMessage ==
    \E workflow_message \in HandlerMessages : process_message(workflow_message, {Absent})

InitHandlers ==
    /\ self_workflow \in HandlerWorkflows
    /\ pc = "idle"
    /\ msg = NoMessage
    /\ context = EmptyDict
    /\ idx = 0
    /\ is_error = FALSE
    /\ exc = None
    /\ table = EmptyDict
    /\ store = EmptyDict
    /\ statusLog = <<>>
    /\ calls = <<>>
    /\ context_id = 0
    /\ EnvIdle

NextHandlers ==
    \/ ProcessHandlerMessage
    \/ ExecutePrimaryAction
    \/ ExecuteErrorAction
    \/ CompleteMessage
    \/ HandleException

SpecHandlers == InitHandlers /\ [][NextHandlers]_vars

\* every handler call returns or raises, so each pass of the two loops of
\* _execute_workflow comes to its end
SpecHandlersFair ==
    /\ SpecHandlers
    /\ WF_vars(ExecutePrimaryAction)
    /\ WF_vars(ExecuteErrorAction)

(* ------------------- one processor, several messages ------------------ *)

\* the number of process_message calls made on one MessageProcessor
MaxMessages == 2

MessageIds == <<s_m1, <<"m", "2">>, <<"m", "3">>, <<"m", "4">>>>

\* the workflows container: two configs, each with its own workflow
FirstWorkflow == Workflow(s_Test_Workflow, <<ActCreateRecord>>, NoActions, None)

SecondWorkflow == Workflow(s_Second_Workflow, <<ActHelloNoUser>>, <<ActDummy>>, None)

SequenceFolder(blob_name) ==
    IF blob_name = s_wf_cfg \o s_json_suffix
    THEN {[kind |-> "workflow", workflow |-> FirstWorkflow]}
    ELSE IF blob_name = s_wf2_cfg \o s_json_suffix
    THEN {[kind |-> "workflow", workflow |-> SecondWorkflow]}
    ELSE {Absent}

SequenceConfigs == {s_wf_cfg, s_wf2_cfg, s_missing_cfg}

\* how many messages this processor has been given
Received ==
    IF msg = NoMessage THEN 0
    ELSE CHOOSE n \in 1..Len(MessageIds) : MessageIds[n] = msg.message_id

\* the parameters a message of the sequence may carry
SequenceParameters == {EmptyDict, <<[k |-> s_flag, v |-> s_yes]>>}

\* the caller gives the processor its next message
ProcessNextMessage ==
    /\ Received < MaxMessages
    /\ \E config_name \in SequenceConfigs :
       \E parameters \in SequenceParameters :
        process_message(WorkflowMessage(MessageIds[Received + 1], config_name, parameters),
                        SequenceFolder(ConfigBlobName(config_name)))

\* process_message has returned or raised and the caller, keeping the
\* processor, turns to the next message: the caller holds the dict that was
\* returned, the other locals of the call are gone, self._workflow and the
\* storage stay
NextCall ==
    /\ pc \in {"returned", "raised"}
    /\ Received < MaxMessages
    /\ pc' = "idle"
    /\ returned' = IF pc = "returned"
                   THEN Append(returned, [message_id |-> msg.message_id,
                                          dict |-> DictObject(context_id, context)])
                   ELSE returned
    /\ UNCHANGED <<context, context_id, outsideVars>>
    /\ idx' = 0
    /\ is_error' = FALSE
    /\ exc' = None
    /\ statusLog' = <<>>
    /\ calls' = <<>>
    /\ UNCHANGED <<self_workflow, msg, table, store>>

InitSequence ==
    /\ self_workflow = NoWorkflow
    /\ pc = "idle"
    /\ msg = NoMessage
    /\ context = EmptyDict
    /\ idx = 0
    /\ is_error = FALSE
    /\ exc = None
    /\ table = EmptyDict
    /\ store = EmptyDict
    /\ statusLog = <<>>
    /\ calls = <<>>
    /\ context_id = 0
    /\ EnvIdle

NextSequence ==
    \/ ProcessNextMessage
    \/ ExecutePrimaryAction
    \/ ExecuteErrorAction
    \/ CompleteMessage
    \/ HandleException
    \/ NextCall

SpecSequence == InitSequence /\ [][NextSequence]_vars

\* a MessageProcessor nobody has called
EngineIdle ==
    /\ self_workflow = NoWorkflow
    /\ pc = "idle"
    /\ msg = NoMessage
    /\ context = EmptyDict
    /\ idx = 0
    /\ is_error = FALSE
    /\ exc = None
    /\ table = EmptyDict
    /\ store = EmptyDict
    /\ statusLog = <<>>
    /\ calls = <<>>
    /\ context_id = 0
    /\ returned = <<>>

(* ------------------------- utils/queue_client.py ---------------------- *)

\* the number of receive_message calls made on one QueueClient
MaxReceives == 3

\* how many messages the queue holds at the start
MaxQueued == 2

\* a ServiceBusReceivedMessage: body yields the chunks, each bytes that
\* decode to text as UTF-8 or do not decode
Chunk(valid, text) == [valid |-> valid, text |-> text]

ReceivedMessage(id, body) == [id |-> id, body |-> body]

Bodies ==
    {<<Chunk(TRUE, s_m1)>>,
     <<Chunk(FALSE, <<>>)>>,
     <<>>,
     <<Chunk(TRUE, s_m1), Chunk(TRUE, s_wf_cfg)>>}

\* lines 67-71: next(msg.body), then bytes.decode('utf-8')
message_body(message) ==
    IF message.body = <<>> THEN Raised(<<"S","t","o","p","I","t","e","r","a","t","i","o","n">>)
    ELSE IF ~message.body[1].valid
    THEN Raised(<<"U","n","i","c","o","d","e","D","e","c","o","d","e","E","r","r","o","r">>)
    ELSE Returned(message.body[1].text)

\* receiver.receive_messages(max_message_count=1, max_wait_time=timeout):
\* what it may hand over, the head of the queue or nothing
receive_messages(queue, arrived) ==
    IF arrived /\ queue # <<>> THEN <<queue[1]>> ELSE <<>>

\* receiver.complete_message(msg): the message leaves the queue
complete_message(queue, message) ==
    SelectSeq(queue, LAMBDA m : m.id # message.id)

\* one receive_message call: whether receive_messages waited out its
\* timeout or handed a message over (else it, or _get_receiver, raised), the
\* message handed over (NoReceived when none), the bodies given to the callback, whether the callback raised,
\* the complete_message calls and whether each succeeded, and what the call
\* returned, "True" or "False" ("raised" when an exception left it)
NoReceived == ReceivedMessage(0, <<>>)

ReceiveCall(waited, received, delivered, callback_raised, completions, result) ==
    [waited |-> waited, received |-> received, delivered |-> delivered,
     callback_raised |-> callback_raised, completions |-> completions, result |-> result]

\* the result of the inner try, lines 65-85: "True" when line 80 is reached,
\* "False" when the handler of line 81 returns, "error" when the handler's
\* own complete_message raises
InnerResult(callback_ok, first_ok, second_ok) ==
    IF callback_ok /\ first_ok THEN "True"
    ELSE IF second_ok THEN "False"
    ELSE "error"

\* QueueClient.receive_message, lines 54-94
ReceiveMessage ==
    /\ Len(receive_calls) < MaxReceives
    /\ \E receiver_ok, receive_ok, arrived, callback_returns, first_ok, second_ok, close_ok \in BOOLEAN :
        LET received_msgs == receive_messages(sb_queue, arrived)
            message == received_msgs[1]
            body == message_body(message)
            callback_called == ~body.raised
            callback_ok == callback_called /\ callback_returns
            delivered == IF callback_called THEN <<body.value>> ELSE <<>>
            \* line 77, then line 84 when anything in the try raised
            completions == IF callback_ok /\ first_ok THEN <<TRUE>>
                           ELSE IF callback_ok THEN <<FALSE, second_ok>>
                           ELSE <<second_ok>>
            completed == \E i \in 1..Len(completions) : completions[i]
            inner == InnerResult(callback_ok, first_ok, second_ok)
            \* lines 90-94: the outer handler, whose close() may raise too
            outer == IF close_ok THEN "False" ELSE "raised"
        IN  /\ UNCHANGED <<engineVars, registryVars, conditionVars, placeholderVars, initiatorVars>>
            /\ IF self_receiver = "None" /\ ~receiver_ok
               THEN \* get_queue_receiver raises: line 93 finds no receiver to close
                    /\ UNCHANGED <<sb_queue, self_receiver>>
                    /\ receive_calls' = Append(receive_calls,
                            ReceiveCall(FALSE, NoReceived, <<>>, FALSE, <<>>, "False"))
               ELSE IF ~receive_ok
               THEN /\ UNCHANGED sb_queue
                    /\ self_receiver' = IF close_ok THEN "None" ELSE "open"
                    /\ receive_calls' = Append(receive_calls,
                            ReceiveCall(FALSE, NoReceived, <<>>, FALSE, <<>>, outer))
               ELSE IF received_msgs = <<>>
               THEN /\ UNCHANGED sb_queue
                    /\ self_receiver' = "open"
                    /\ receive_calls' = Append(receive_calls,
                            ReceiveCall(TRUE, NoReceived, <<>>, FALSE, <<>>, "False"))
               ELSE /\ sb_queue' = IF completed THEN complete_message(sb_queue, message)
                                   ELSE sb_queue
                    /\ self_receiver' = IF inner = "error" /\ close_ok THEN "None" ELSE "open"
                    /\ receive_calls' = Append(receive_calls,
                            ReceiveCall(TRUE, message, delivered, callback_called /\ ~callback_returns,
                                        completions,
                                        IF inner # "error" THEN inner ELSE outer))

InitQueue ==
    /\ EngineIdle
    /\ RegistryIdle
    /\ ConditionIdle
    /\ PlaceholderIdle
    /\ InitiatorIdle
    /\ self_receiver = "None"
    /\ receive_calls = <<>>
    /\ \E bodies \in SeqsUpTo(Bodies, MaxQueued) :
          sb_queue = [i \in 1..Len(bodies) |-> ReceivedMessage(i, bodies[i])]

NextQueue == ReceiveMessage

SpecQueue == InitQueue /\ [][NextQueue]_vars

(* --------------------------- an ActionRegistry ------------------------ *)

\* the number of register calls made on one registry
MaxRegistrations == 3

\* action types: dict keys, compared as they are written
RegistryTypes == {s_dummy, s_hello_world, <<"D","u","m","m","y">>}

HandlerClasses == {"DummyAction", "HelloWorldAction", "NoResultAction"}

\* registry.register(action_type, handler_class), as register_action does
\* for each decorated class
Register ==
    /\ Len(registrations) < MaxRegistrations
    /\ \E action_type \in RegistryTypes :
       \E handler_class \in HandlerClasses :
        /\ action_registry' = register(action_registry, action_type, handler_class)
        /\ registrations' = Append(registrations,
                                   [action_type |-> action_type, handler_class |-> handler_class])
    /\ UNCHANGED <<engineVars, queueVars, conditionVars, placeholderVars, initiatorVars>>

InitRegistry ==
    /\ EngineIdle
    /\ QueueIdle
    /\ RegistryIdle
    /\ ConditionIdle
    /\ PlaceholderIdle
    /\ InitiatorIdle

NextRegistry == Register

SpecRegistry == InitRegistry /\ [][NextRegistry]_vars

(* ------------------- calls of Utilities.evaluate_condition ------------ *)

k_status == <<"s","t","a","t","u","s">>
k_STATUS == <<"S","T","A","T","U","S">>
k_count == <<"c","o","u","n","t">>
k_Count == <<"C","o","u","n","t">>
k_empty == <<"e","m","p","t","y">>
k_EMPTY == <<"E","M","P","T","Y">>
k_missing == <<"m","i","s","s","i","n","g">>
k_name == <<"n","a","m","e">>
op_eq3 == <<"=","=","=">>
op_arrow == <<"=",">">>
op_eqlt == <<"=","<">>
op_is_None == <<"i","s"," ","N","o","n","e">>
op_is_not_None == <<"i","s"," ","n","o","t"," ","N","o","n","e">>
op_is == <<"i","s">>
op_is_not == <<"i","s"," ","n","o","t">>
lit_3 == <<"3">>
lit_7 == <<"7">>
lit_10 == <<"1","0">>
lit_q5 == <<"'","5","'">>
lit_active == <<"'","a","c","t","i","v","e","'">>
lit_ACTIVE == <<"'","A","C","T","I","V","E","'">>
lit_inactive == <<"'","i","n","a","c","t","i","v","e","'">>
lit_abc == <<"'","a","b","c","'">>
lit_unquoted == <<"a","c","t","i","v","e">>
lit_unclosed == <<"'","a","c","t","i","v","e">>
lit_unopened == <<"a","c","t","i","v","e","'">>
lit_quote == <<"'">>
lit_empty_quoted == <<"'","'">>
lit_double == <<"\"","a","c","t","i","v","e","\"">>
lit_this_or_that == <<"'","t","h","i","s"," ","o","r"," ","t","h","a","t","'">>
lit_This_OR_That == <<"'","T","h","i","s"," ","O","R"," ","T","h","a","t","'">>
lit_and == <<"a","n","d">>
v_active == <<"a","c","t","i","v","e">>
v_Active == <<"A","c","t","i","v","e">>
v_5 == <<"5">>
v_05 == <<"0","5">>
v_10 == <<"1","0">>
v_abc == <<"a","b","c">>
v_this_or_that == <<"t","h","i","s"," ","o","r"," ","t","h","a","t">>
v_TestWorkflow == <<"T","e","s","t","W","o","r","k","f","l","o","w">>

\* the most parts a condition is joined from
MaxParts == 3

\* one part of a condition, as its writer meant it: a key, an operator and
\* a literal, any of which may be missing
Part(key, op, literal) == [key |-> key, op |-> op, literal |-> literal]

\* the part's text: what it has of the three, separated by single spaces
PartText(part) ==
    Join(SelectSeq(<<part.key, part.op, part.literal>>, LAMBDA word : word # <<>>), <<" ">>)

RECURSIVE JoinedText(_, _)
\* the parts' texts joined by the connectives, " or " or " and "
JoinedText(parts, seps) ==
    IF parts = <<>> THEN <<>>
    ELSE IF Len(parts) = 1 THEN PartText(parts[1])
    ELSE PartText(parts[1]) \o seps[1] \o JoinedText(Tail(parts), Tail(seps))

ConditionKeys == {k_status, k_STATUS, k_count, k_empty, k_missing, <<>>}

ComparisonOps == {operators[i] : i \in 1..Len(operators)}

ConditionOps ==
    ComparisonOps \cup {op_eq3, op_arrow, op_eqlt, op_is_None, op_is_not_None, op_is, op_is_not, <<>>}

ConditionLiterals ==
    {lit_3, lit_7, lit_10, lit_q5, lit_active, lit_ACTIVE, lit_inactive, lit_abc,
     lit_unquoted, lit_unclosed, lit_unopened, lit_quote, lit_empty_quoted, lit_double,
     lit_this_or_that, lit_This_OR_That, lit_and, <<>>}

\* the parts joined into longer conditions: one true and one false of the
\* test context, a None check, a None check followed by a dangling "and",
\* and a part left blank
JoinedParts ==
    {Part(k_status, <<"=","=">>, lit_active),
     Part(k_count, <<">">>, lit_7),
     Part(k_missing, op_is_None, <<>>),
     Part(k_missing, op_is_None, lit_and),
     Part(<<>>, <<>>, <<>>)}

Connectives == {s_or, s_and}

WrittenConditions ==
    {Written(<<>>, <<>>)} \cup
    {Written(<<Part(key, op, literal)>>, <<>>) :
        key \in ConditionKeys, op \in ConditionOps, literal \in ConditionLiterals} \cup
    UNION {{Written(parts, seps) : parts \in [1..n -> JoinedParts],
                                   seps \in [1..(n - 1) -> Connectives]} : n \in 2..MaxParts}

\* the context of test_conditions.py (lines 6-12), and contexts whose keys
\* and values are written in other letter case, hold text with spaces,
\* digits with a leading zero, the empty str, or nothing
ConditionContexts ==
    {<<[k |-> k_status, v |-> v_active], [k |-> k_count, v |-> v_5],
       [k |-> k_name, v |-> v_TestWorkflow], [k |-> k_empty, v |-> None]>>,
     <<[k |-> k_STATUS, v |-> v_Active], [k |-> k_Count, v |-> v_10],
       [k |-> k_EMPTY, v |-> None]>>,
     <<[k |-> k_status, v |-> v_this_or_that], [k |-> k_count, v |-> v_abc],
       [k |-> k_empty, v |-> <<>>]>>,
     <<[k |-> k_status, v |-> v_5], [k |-> k_count, v |-> v_05]>>,
     EmptyDict}

\* a caller evaluates the condition against the context
Evaluate ==
    /\ ~cond_outcome.called
    /\ cond_outcome' = [called |-> TRUE, value |-> evaluate_condition(condition, cond_context)]
    /\ UNCHANGED <<condition, cond_parts, cond_context, engineVars, queueVars, registryVars,
                   placeholderVars, initiatorVars>>

InitCondition ==
    /\ EngineIdle
    /\ QueueIdle
    /\ RegistryIdle
    /\ PlaceholderIdle
    /\ InitiatorIdle
    /\ cond_outcome = NotCalled
    /\ cond_context \in ConditionContexts
    /\ \/ \E written \in WrittenConditions :
            /\ cond_parts = written
            /\ condition = JoinedText(written.parts, written.seps)
       \/ /\ cond_parts = Written(<<>>, <<>>)
          /\ condition = None

NextCondition == Evaluate

SpecCondition == InitCondition /\ [][NextCondition]_vars

(* ------------------------ callers of replace_placeholders ------------- *)

k_NAME == <<"N","A","M","E">>
k_greeting == <<"g","r","e","e","t","i","n","g">>
v_Bob == <<"B","o","b">>
v_hello_name == <<"H","i"," ","{","n","a","m","e","}">>
t_Hello == <<"H","e","l","l","o"," ">>
t_open == <<"{">>
t_empty_braces == <<"{","}">>

\* the most pieces a text is written from
MaxSegments == 3

\* a piece of a text, as its writer meant it: a placeholder for a key, or
\* plain text
Token(key) == [token |-> TRUE, s |-> key]

Plain(s) == [token |-> FALSE, s |-> s]

\* the piece as it stands in the text: f"{{{placeholder}}}" for a token
SegmentText(segment) ==
    IF segment.token THEN <<"{">> \o segment.s \o <<"}">> ELSE segment.s

RECURSIVE SegmentsText(_)
SegmentsText(segments) ==
    IF segments = <<>> THEN <<>>
    ELSE SegmentText(segments[1]) \o SegmentsText(Tail(segments))

Segments ==
    {Token(k_name), Token(k_NAME), Token(k_greeting), Token(k_missing),
     Plain(t_Hello), Plain(t_open), Plain(t_empty_braces)}

\* contexts whose keys are written in lower or upper case and whose values
\* are plain text, None, or text that holds a placeholder of its own
PlaceholderContexts ==
    {<<[k |-> k_name, v |-> v_Bob], [k |-> k_greeting, v |-> t_Hello]>>,
     <<[k |-> k_NAME, v |-> v_Bob], [k |-> k_greeting, v |-> None]>>,
     <<[k |-> k_name, v |-> v_Bob], [k |-> k_greeting, v |-> v_hello_name]>>,
     EmptyDict}

\* a caller replaces the placeholders of the text
ReplacePlaceholders ==
    /\ ~tpl_outcome.called
    /\ tpl_outcome' = [called |-> TRUE, value |-> replace_placeholders(template, tpl_context)]
    /\ UNCHANGED <<template, tpl_segments, tpl_context, engineVars, queueVars, registryVars,
                   conditionVars, initiatorVars>>

InitPlaceholders ==
    /\ EngineIdle
    /\ QueueIdle
    /\ RegistryIdle
    /\ ConditionIdle
    /\ InitiatorIdle
    /\ tpl_outcome = NotReplaced
    /\ tpl_context \in PlaceholderContexts
    /\ \/ \E segments \in SeqsUpTo(Segments, MaxSegments) :
            /\ tpl_segments = segments
            /\ template = SegmentsText(segments)
       \/ /\ tpl_segments = <<>>
          /\ template = None

NextPlaceholders == ReplacePlaceholders

SpecPlaceholders == InitPlaceholders /\ [][NextPlaceholders]_vars

(* ------------- a WorkInitiator and a worker on one message ------------ *)

\* what no step of the WorkInitiator touches, the status table apart
workerVars == <<self_workflow, pc, msg, context, idx, is_error, exc, store, statusLog,
                calls, context_id, returned>>

\* save_message_status as the initiator calls it: with its reference_id,
\* and no display or details
save_initiator_status(entities, message_id, status, reference_id, ok) ==
    IF ok THEN Put(entities, message_id, StatusEntity(status, None, None, reference_id))
    ELSE entities

\* a message in the queue, and whether a receiver holds its lock
Sent(message, locked) == [message |-> message, locked |-> locked]

\* WorkInitiator.__init__, lines 12-42: builds the message and saves "Started"
WorkInitiator__init__ ==
    /\ wi_pc = "none"
    /\ \E started_ok \in BOOLEAN :
        /\ table' = save_initiator_status(table, s_m1, s_Started, None, started_ok)
        /\ wi_message' = IF started_ok THEN WorkflowMessage(s_m1, s_wf_cfg, EmptyDict)
                         ELSE wi_message
        /\ wi_pc' = IF started_ok THEN "constructed" ELSE "raised"
    /\ UNCHANGED <<wi_queue, workerVars, queueVars, registryVars, conditionVars, placeholderVars>>

\* enqueue_work, lines 86-89: the message is in the queue from here on
SendMessage ==
    /\ wi_pc = "constructed"
    /\ \E send_ok \in BOOLEAN :
        /\ wi_queue' = IF send_ok THEN Append(wi_queue, Sent(wi_message, FALSE)) ELSE wi_queue
        /\ wi_pc' = IF send_ok THEN "sent" ELSE "raised"
    /\ UNCHANGED <<wi_message, table, workerVars, queueVars, registryVars, conditionVars,
                   placeholderVars>>

\* enqueue_work, lines 92-94: the upsert of "Queued", whatever the record holds
SaveQueued ==
    /\ wi_pc = "sent"
    /\ \E queued_ok \in BOOLEAN :
        /\ table' = save_initiator_status(table, wi_message.message_id, s_Queued, None, queued_ok)
        /\ wi_pc' = IF queued_ok THEN "enqueued" ELSE "raised"
    /\ UNCHANGED <<wi_message, wi_queue, workerVars, queueVars, registryVars, conditionVars,
                   placeholderVars>>

\* the worker's receive_message, queue_client.py line 58: takes the lock of
\* a message of the queue
WorkerReceive ==
    /\ pc = "idle"
    /\ \A i \in 1..Len(wi_queue) : ~wi_queue[i].locked
    /\ \E i \in 1..Len(wi_queue) :
        wi_queue' = [wi_queue EXCEPT ![i] = Sent(wi_queue[i].message, TRUE)]
    /\ UNCHANGED <<wi_pc, wi_message, table, workerVars, queueVars, registryVars, conditionVars,
                   placeholderVars>>

\* queue_client.py line 74: the callback hands the message to process_message
WorkerProcess ==
    \E i \in 1..Len(wi_queue) :
        /\ wi_queue[i].locked
        /\ process_message(wi_queue[i].message, {Absent})

\* queue_client.py lines 77 and 84: the message leaves the queue
WorkerComplete ==
    /\ pc \in {"returned", "raised"}
    /\ \E i \in 1..Len(wi_queue) :
        /\ wi_queue[i].locked
        /\ wi_queue' = SubSeq(wi_queue, 1, i - 1) \o SubSeq(wi_queue, i + 1, Len(wi_queue))
    /\ UNCHANGED <<wi_pc, wi_message, table, workerVars, queueVars, registryVars, conditionVars,
                   placeholderVars>>

\* the workflows of the worker: dummy actions and one with no handler,
\* with or without an error action
InitiatorWorkflows ==
    {Workflow(s_Test_Workflow, actions, error_actions, None) :
        actions \in SeqsUpTo({ActDummy, ActNotRegistered}, MaxActions),
        error_actions \in {NoActions, <<ActDummy>>}}

InitInitiator ==
    /\ self_workflow \in InitiatorWorkflows
    /\ pc = "idle"
    /\ msg = NoMessage
    /\ context = EmptyDict
    /\ idx = 0
    /\ is_error = FALSE
    /\ exc = None
    /\ table = EmptyDict
    /\ store = EmptyDict
    /\ statusLog = <<>>
    /\ calls = <<>>
    /\ context_id = 0
    /\ EnvIdle

NextInitiator ==
    \/ WorkInitiator__init__
    \/ SendMessage
    \/ SaveQueued
    \/ WorkerReceive
    \/ WorkerProcess
    \/ ExecutePrimaryAction
    \/ ExecuteErrorAction
    \/ CompleteMessage
    \/ HandleException
    \/ WorkerComplete

SpecInitiator == InitInitiator /\ [][NextInitiator]_vars

(* ------------------------------ properties ---------------------------- *)

Entered(kind) ==
    {p \in 1..Len(calls) : calls[p].op = "_execute_action" /\ calls[p].kind = kind}

\* the action at index of the kind's list ended in failure: _execute_action
\* raised, or returned a result equal to "error" in any letter case
ActionFailed(kind, index) ==
    \E p \in 1..Len(calls) :
        /\ calls[p].kind = kind
        /\ calls[p].index = index
        /\ \/ calls[p].op = "raised"
           \/ /\ calls[p].op = "returned"
              /\ Lower(Get(calls[p].data, s_result)) = s_error

\* every primary action of the workflow was dispatched and none failed
AllPrimarySucceeded ==
    /\ self_workflow # NoWorkflow
    /\ \A i \in 1..Len(self_workflow.actions) :
        /\ \E p \in Entered("primary") : calls[p].index = i
        /\ ~ActionFailed("primary", i)

NamespaceKey(action, key) == ActionPrefix(action) \o <<".">> \o key

\* C1: once the primary action at index i failed, no primary action after
\* i is ever dispatched, and while _execute_workflow runs its error actions
\* and when it returns, workflow.result is "Error" and workflow.last_action
\* is the name of action i.
C1_FailureHaltsPrimaryActions ==
    \A i \in 1..Len(self_workflow.actions) :
        ActionFailed("primary", i) =>
            /\ \A p \in Entered("primary") : calls[p].index <= i
            /\ pc \in {"error_actions", "after_run"} =>
                /\ Get(context, s_workflow_result) = s_Error
                /\ Get(context, s_workflow_last_action) = ActionName(self_workflow.actions[i])

\* the first of two primary actions failed, the error actions ran and
\* _execute_workflow has returned
C1_Witness ==
    /\ pc = "after_run"
    /\ Len(self_workflow.actions) = 2
    /\ ActionFailed("primary", 1)
    /\ Entered("error") # {}

\* this step dispatched a primary action whose validate_inputs or execute raised
PrimaryHandlerRaised ==
    /\ pc = "run"
    /\ Len(calls') >= Len(calls) + 3
    /\ calls'[Len(calls')].op = "raised"

\* C2: in the step in which validate_inputs or execute of a primary action
\* raises, the action's namespace receives result "Error" and error equal
\* to the exception text, workflow.result becomes "Error", and
\* _execute_workflow goes on to its error actions or returns: the loop
\* halts and no exception is being propagated.
C2_HandlerExceptionIsContained ==
    [][PrimaryHandlerRaised =>
        LET action == self_workflow.actions[idx]
            raised == calls'[Len(calls')]
        IN  /\ Has(context', NamespaceKey(action, s_result))
            /\ Get(context', NamespaceKey(action, s_result)) = s_Error
            /\ Has(context', NamespaceKey(action, s_error))
            /\ Get(context', NamespaceKey(action, s_error)) = Get(raised.data, s_error)
            /\ Get(context', s_workflow_result) = s_Error
            /\ pc' \in {"error_actions", "after_run"}
            /\ exc' = exc]_vars

\* validate_inputs of hello_world raised for the missing user_name and the
\* text is in the action's namespace
C2_Witness ==
    /\ \E p \in 1..Len(calls) :
        /\ calls[p].op = "raised"
        /\ calls[p].kind = "primary"
        /\ \E q \in 1..(p - 1) : calls[q].op = "validate_inputs" /\ calls[q].index = calls[p].index
    /\ Has(context, s_hello_world_error)
    /\ Get(context, s_hello_world_error) = s_missing_user_name

\* C3: process_message never lets an exception escape.
C3_ProcessNeverRaises == pc # "raised"

\* C4: when process_message returns for a workflow whose primary actions
\* were all dispatched and none failed, and the message has no parameter
\* named result, workflow.result is "Success" and the namespace of each
\* action holds a result.
C4_AllSucceededReturnsSuccess ==
    (/\ pc = "returned"
     /\ AllPrimarySucceeded
     /\ ~Has(msg.parameters, s_result)) =>
        /\ Get(context, s_workflow_result) = s_Success
        /\ \A i \in 1..Len(self_workflow.actions) :
            Has(context, NamespaceKey(self_workflow.actions[i], s_result))

\* C5: an error action is dispatched only after a primary action failed,
\* with a non-empty workflow.error_actions, after every dispatch of a
\* primary action, and in list order: the k-th dispatch of an error action
\* is that of error_actions[k].
C5_ErrorActionsOnlyAfterFailure ==
    \A p \in Entered("error") :
        /\ \E i \in 1..Len(self_workflow.actions) :
            /\ ActionFailed("primary", i)
            /\ \A q \in Entered("primary") : calls[q].index <= i
        /\ self_workflow.error_actions # NoActions
        /\ calls[p].index \in 1..Len(self_workflow.error_actions)
        /\ \A q \in 1..Len(calls) : calls[q].kind = "primary" => q < p
        /\ calls[p].index = Cardinality({q \in Entered("error") : q <= p})

\* two error actions were dispatched
C5_Witness ==
    \E p \in Entered("error") : calls[p].index = 2

\* C6: once an error action raised, no action is dispatched any more (no
\* later error action, and none a second time), workflow.result is still
\* "Error", _execute_workflow has left its error loop and the exception
\* being handled or propagated is not the error action's.
C6_ErrorActionExceptionStopsErrorPath ==
    \A p \in 1..Len(calls) :
        (calls[p].kind = "error" /\ calls[p].op = "raised") =>
            /\ \A q \in (p + 1)..Len(calls) : calls[q].op # "_execute_action"
            /\ \A q, r \in Entered("error") : calls[q].index = calls[r].index => q = r
            /\ Get(context, s_workflow_result) = s_Error
            /\ pc # "error_actions"
            /\ exc # Get(calls[p].data, s_error)

\* the first of two error actions raised and _execute_workflow has returned
C6_Witness ==
    /\ pc = "after_run"
    /\ self_workflow.error_actions # NoActions
    /\ Len(self_workflow.error_actions) = 2
    /\ \E p \in 1..Len(calls) :
        calls[p].kind = "error" /\ calls[p].op = "raised" /\ calls[p].index = 1

\* C7: when the processor has no workflow and load_workflow_config finds
\* none for the message, process_message reports the status Error, sets
\* workflow.result to "Error" and returns, with no action dispatched and no
\* error.json written.
C7_MissingConfigReturnsError ==
    (/\ pc # "idle"
     /\ self_workflow = NoWorkflow
     /\ statusLog[1].ok) =>
        /\ pc = "returned"
        /\ Get(context, s_workflow_result) = s_Error
        /\ Len(statusLog) = 2
        /\ statusLog[2].status = s_Error
        /\ calls = <<>>
        /\ ~Has(store, BlobName(msg.message_id, s_error_json))

\* C8: a primary action that carries a condition is dispatched only if the
\* condition evaluates to true against the context at its dispatch.
C8_ConditionGuardsDispatch ==
    [][(pc = "run" /\ calls' # calls) =>
        evaluate_condition(self_workflow.actions[idx].condition, context)]_vars

\* some save_message_status call of this process_message raised
SomeStatusSaveFailed == \E s \in 1..Len(statusLog) : ~statusLog[s].ok

\* C9: when process_message returns after a status save raised, and every
\* primary action succeeded, workflow.result is "Success", no Error status
\* was reported and no error.json was written.
C9_CollaboratorFailureKeepsSuccess ==
    (/\ pc = "returned"
     /\ AllPrimarySucceeded
     /\ SomeStatusSaveFailed) =>
        /\ Get(context, s_workflow_result) = s_Success
        /\ \A s \in 1..Len(statusLog) : statusLog[s].status # s_Error
        /\ ~Has(store, BlobName(msg.message_id, s_error_json))

\* C10: every report of "Executing: <name>", saved or failed, is followed
\* by the dispatch of that action: there are as many dispatched primary
\* actions as reports.
C10_ExecutingFailureDoesNotAbort ==
    Cardinality({s \in 1..Len(statusLog) : StartsWith(statusLog[s].status, s_Executing_colon)})
        = Cardinality(Entered("primary"))

\* the Error status the except clause of process_message reports
ErrorStatusText ==
    s_Workflow_execution_failed \o self_workflow.name \o s_Last_action_was
    \o Str(Get(context, s_workflow_last_action)) \o s_quote_dot

\* C11: when _execute_workflow returned with workflow.result "Error" and a
\* last action is recorded, the except clause reports the status Error
\* whose text names the workflow and workflow.last_action; if that report
\* is saved, process_message returns, whatever the storage does, and when
\* it returns error.json holds error, workflow, config_name and context.
C11_ErrorSnapshotFailureIsContained ==
    [][(/\ pc = "except"
        /\ exc = s_No_active_exception
        /\ Has(context, s_workflow_last_action)) =>
        LET reported == statusLog'[Len(statusLog')]
            blob == BlobName(msg.message_id, s_error_json)
        IN  /\ Len(statusLog') = Len(statusLog) + 1
            /\ reported.status = s_Error
            /\ reported.display = ErrorStatusText
            /\ reported.ok => pc' = "returned"
            /\ pc' = "returned" =>
                /\ Has(store', blob)
                /\ Get(store', blob) = [error |-> exc, workflow |-> self_workflow.name,
                                        config_name |-> msg.config_name, context |-> context]]_vars

\* C12: after the registry lookup of a primary action's action_type found
\* no handler (_execute_action raised before validate_inputs), the action's
\* namespace holds result "Error" and the lookup error as error,
\* workflow.result is "Error", workflow.last_action is the action's name, no
\* primary action after it is dispatched, the loop over the primary actions
\* is over and the exception is not the one process_message handles.
C12_LookupMissIsContained ==
    \A p \in 2..Len(calls) :
        (/\ calls[p].op = "raised"
         /\ calls[p].kind = "primary"
         /\ calls[p - 1].op = "_execute_action") =>
            LET action == self_workflow.actions[calls[p].index]
                message == s_Action_handler_not_found \o action.action_type
            IN  /\ Get(calls[p].data, s_error) = message
                /\ Has(context, NamespaceKey(action, s_result))
                /\ Get(context, NamespaceKey(action, s_result)) = s_Error
                /\ Has(context, NamespaceKey(action, s_error))
                /\ Get(context, NamespaceKey(action, s_error)) = message
                /\ Get(context, s_workflow_result) = s_Error
                /\ Get(context, s_workflow_last_action) = ActionName(action)
                /\ \A q \in Entered("primary") : calls[q].index <= calls[p].index
                /\ pc # "run"
                /\ exc # message

\* the first of two primary actions has no registered handler
C12_Witness ==
    /\ Len(self_workflow.actions) = 2
    /\ get_handler(self_workflow.actions[1].action_type) = NoClass
    /\ pc = "after_run"
    /\ \E p \in 2..Len(calls) :
        /\ calls[p].op = "raised"
        /\ calls[p].kind = "primary"
        /\ calls[p].index = 1
        /\ calls[p - 1].op = "_execute_action"

\* this step dispatched the primary action at idx and its execute returned a
\* mapping without a result key
ReturnedWithoutResult ==
    /\ pc = "run"
    /\ Len(calls') = Len(calls) + 4
    /\ calls'[Len(calls')].op = "returned"
    /\ ~Has(execute(get_handler(self_workflow.actions[idx].action_type),
                    calls'[Len(calls') - 1].data, store, "ok").call.value, s_result)

\* C13: in the step in which a primary action's execute returns a mapping
\* without a result key, _execute_action returns it with result "Success",
\* <prefix>.result = "Success" is merged into the context, workflow.result
\* keeps its value, is_error is false and the loop goes on to the next
\* primary action, or ends normally after the last one.
C13_MissingResultIsSuccess ==
    [][ReturnedWithoutResult =>
        LET action == self_workflow.actions[idx]
        IN  /\ Get(calls'[Len(calls')].data, s_result) = s_Success
            /\ Has(context', NamespaceKey(action, s_result))
            /\ Get(context', NamespaceKey(action, s_result)) = s_Success
            /\ Get(context', s_workflow_result) = Get(context, s_workflow_result)
            /\ ~is_error'
            /\ IF idx < Len(self_workflow.actions)
               THEN pc' = "run" /\ idx' = idx + 1
               ELSE pc' = "after_run"]_vars

\* the first action returned {} and the second action has been dispatched
C13_Witness ==
    /\ Len(self_workflow.actions) = 2
    /\ get_handler(self_workflow.actions[1].action_type) = "NoResultAction"
    /\ Has(context, NamespaceKey(self_workflow.actions[1], s_result))
    /\ Get(context, NamespaceKey(self_workflow.actions[1], s_result)) = s_Success
    /\ \E p \in Entered("primary") : calls[p].index = 2

\* this step called validate_inputs of the action at idx of the list the
\* loop is in
HandlerCalled ==
    /\ pc \in {"run", "error_actions"}
    /\ Len(calls') >= Len(calls) + 3

\* the action being dispatched, and the shared context as _execute_action
\* receives it
DispatchedAction ==
    IF pc = "run" THEN self_workflow.actions[idx] ELSE self_workflow.error_actions[idx]

DispatchContext ==
    IF pc = "run"
    THEN Put(context, s_workflow_last_action, ActionName(DispatchedAction))
    ELSE context

\* C14: the input view validate_inputs is given holds, for each parameter
\* of the action, the parameter's text with its placeholders resolved
\* against the shared context as it stands at the dispatch; so
\* "Bob {Create_Some_Record.record_id}" is "Bob 1234567890" when Create Some
\* Record has already run and put its record_id into the context, and is
\* left as written when it has not.
C14_ParametersResolvedAtDispatch ==
    [][HandlerCalled =>
        LET parameters == DispatchedAction.parameters
            view == calls'[Len(calls) + 2].data
        IN  parameters # NoDict =>
                \A i \in 1..Len(parameters) :
                    /\ Has(view, parameters[i].k)
                    /\ Get(view, parameters[i].k)
                        = replace_placeholders(parameters[i].v, DispatchContext)
                    /\ parameters[i].v = s_Bob_record =>
                        Get(view, parameters[i].k)
                            = IF Has(context, s_Create_Some_Record_record_id)
                              THEN s_Bob_1234567890 ELSE s_Bob_record]_vars

\* execute of hello_world was given the user_name resolved from the record
\* id of the action before it
C14_Witness ==
    \E p \in 1..Len(calls) :
        /\ calls[p].op = "execute"
        /\ calls[p].index = 2
        /\ Has(calls[p].data, s_user_name)
        /\ Get(calls[p].data, s_user_name) = s_Bob_1234567890

\* what _execute_workflow merges for the call that ended this step: the
\* handler's output, or the action context standing for a caught exception
MergedOutput ==
    LET ended == calls'[Len(calls')]
    IN  IF ended.op = "raised" THEN CaughtActionContext(Get(ended.data, s_error))
        ELSE ended.data

\* C15: in a step that dispatches a primary action, a key of the shared
\* context other than workflow.last_action, workflow.result and the keys
\* <prefix>.<k> of the output is neither added, removed nor changed; each
\* <prefix>.<k> holds the output's value; workflow.result changes only when
\* the action failed; and a parameter named like a context key has its
\* value in the input view only, whatever the handler wrote to that view.
C15_DispatchFrame ==
    [][(pc = "run" /\ calls' # calls) =>
        LET action == self_workflow.actions[idx]
            ended == calls'[Len(calls')]
            failed == \/ ended.op = "raised"
                      \/ Lower(Get(ended.data, s_result)) = s_error
            written == {s_workflow_last_action, s_workflow_result}
                       \cup {NamespaceKey(action, k) : k \in Keys(MergedOutput)}
        IN  /\ \A key \in (Keys(context) \cup Keys(context')) \ written :
                /\ Has(context, key)
                /\ Has(context', key)
                /\ Get(context', key) = Get(context, key)
            /\ \A k \in Keys(MergedOutput) :
                Get(context', NamespaceKey(action, k)) = Get(MergedOutput, k)
            /\ Get(context', s_workflow_last_action) = ActionName(action)
            /\ Get(context', s_workflow_result) # Get(context, s_workflow_result) =>
                (failed /\ Get(context', s_workflow_result) = s_Error)
            /\ (action.parameters # NoDict /\ Len(calls') >= Len(calls) + 3) =>
                \A i \in 1..Len(action.parameters) :
                    Get(calls'[Len(calls) + 2].data, action.parameters[i].k)
                        = replace_placeholders(action.parameters[i].v, DispatchContext)]_vars

\* the handler was given workflow.name = "shadowed" and wrote to its view,
\* and the shared context still has the workflow's name
C15_Witness ==
    /\ \E p \in 1..Len(calls) :
        /\ calls[p].op = "execute"
        /\ calls[p].kind = "primary"
        /\ get_handler(self_workflow.actions[calls[p].index].action_type) = "NoResultAction"
        /\ Get(calls[p].data, s_workflow_name) = s_shadowed
    /\ Get(context, s_workflow_name) = s_Test_Workflow
    /\ Get(context, s_workflow_result) = s_Processing

SameAction(p, q) == calls[p].kind = calls[q].kind /\ calls[p].index = calls[q].index

\* C16: in the order of the calls, execute directly follows validate_inputs
\* of the same action and is given the same input view; validate_inputs
\* directly follows the entry into _execute_action for that action; a
\* validate_inputs given a view without a required field of its handler is
\* followed by the raise, not by execute; execute is followed by the end of
\* its _execute_action; and _execute_action is entered for an action only
\* when the one before has ended.
C16_ValidateThenExecuteInSequence ==
    \A p \in 1..Len(calls) :
        /\ calls[p].op = "execute" =>
            /\ p > 1
            /\ calls[p - 1].op = "validate_inputs"
            /\ SameAction(p - 1, p)
            /\ calls[p - 1].data = calls[p].data
            /\ p < Len(calls)
            /\ calls[p + 1].op \in {"returned", "raised"}
            /\ SameAction(p, p + 1)
        /\ calls[p].op = "validate_inputs" =>
            /\ p > 1
            /\ calls[p - 1].op = "_execute_action"
            /\ SameAction(p - 1, p)
            /\ p < Len(calls)
            /\ SameAction(p, p + 1)
            /\ LET action == IF calls[p].kind = "primary"
                             THEN self_workflow.actions[calls[p].index]
                             ELSE self_workflow.error_actions[calls[p].index]
                   missing == {i \in 1..Len(required_fields(get_handler(action.action_type))) :
                                ~Has(calls[p].data, required_fields(get_handler(action.action_type))[i])}
               IN  calls[p + 1].op = (IF missing # {} THEN "raised" ELSE "execute")
        /\ (calls[p].op = "_execute_action" /\ p > 1) =>
            /\ calls[p - 1].op \in {"returned", "raised"}
            /\ ~SameAction(p - 1, p)

\* a first action was validated and executed, then validate_inputs of the
\* second raised
C16_Witness ==
    \E p \in 2..(Len(calls) - 1) :
        /\ calls[p].op = "validate_inputs"
        /\ calls[p].index = 2
        /\ calls[p + 1].op = "raised"
        /\ \E q \in 1..(p - 1) : calls[q].op = "execute"

\* process_message has ended, and neither a status save nor the storage of
\* the error snapshot failed
EndedWithoutCollaboratorFailure ==
    /\ pc \in {"returned", "raised"}
    /\ \A s \in 1..Len(statusLog) : statusLog[s].ok
    /\ exc # s_storage_unavailable

\* the statuses an orderly call saves before the terminal one
ProgressStatuses ==
    <<s_Processing>> \o
    [i \in 1..Cardinality(Entered("primary")) |->
        s_Executing_colon \o ActionName(self_workflow.actions[i])]

\* C17: when process_message has ended with no collaborator failure, the
\* statuses saved are "Processing", then "Executing: <name>" for each
\* dispatched primary action in workflow order, then one terminal status,
\* "Success" or "Error", and process_message returned a context whose
\* workflow.result is that status.
C17_StatusSequence ==
    EndedWithoutCollaboratorFailure =>
        /\ Len(statusLog) = Len(ProgressStatuses) + 1
        /\ \A s \in 1..Len(ProgressStatuses) : statusLog[s].status = ProgressStatuses[s]
        /\ statusLog[Len(statusLog)].status \in {s_Success, s_Error}
        /\ pc = "returned"
        /\ Get(context, s_workflow_result) = statusLog[Len(statusLog)].status

\* _execute_workflow has returned and workflow.result is not "Error"
RunSucceeded ==
    /\ pc = "after_run"
    /\ Lower(Get(context, s_workflow_result)) # s_error

\* C18: when _execute_workflow returned without error, process_message
\* reports the status Success whose details are success_details with its
\* placeholders resolved against the final context
\* ("record_id={Create_Some_Record.record_id}" gives "record_id=1234567890"
\* after Create Some Record ran), or no details when success_details is
\* absent, and returns the context with workflow.result "Success".
C18_SuccessReport ==
    [][RunSucceeded =>
        LET reported == statusLog'[Len(statusLog')]
            success_details == self_workflow.success_details
        IN  /\ Len(statusLog') = Len(statusLog) + 1
            /\ reported.status = s_Success
            /\ reported.details
                = IF success_details = None THEN None
                  ELSE replace_placeholders(success_details, context)
            /\ (/\ success_details = s_record_id_template
                /\ Has(context, s_Create_Some_Record_record_id)) =>
                    reported.details = s_record_id_1234567890
            /\ pc' = "returned"
            /\ Get(context', s_workflow_result) = s_Success]_vars

\* process_message is about to call _execute_workflow, or has just called it
\* for a workflow without actions
RunStarts ==
    /\ pc \in {"run", "after_run"}
    /\ calls = <<>>
    /\ Len(statusLog) = 1

\* C19: when _execute_workflow starts, each message parameter k is in the
\* context as workflow.k with the message's value, and each parameter k of
\* Workflow.parameters that the message does not supply is in the context
\* as workflow.k with the workflow's value.
C19_WorkflowParametersMerged ==
    RunStarts =>
        /\ \A i \in 1..Len(msg.parameters) :
            /\ Has(context, s_workflow_dot \o msg.parameters[i].k)
            /\ Get(context, s_workflow_dot \o msg.parameters[i].k) = msg.parameters[i].v
        /\ self_workflow.parameters # NoDict =>
            \A i \in 1..Len(self_workflow.parameters) :
                ~Has(msg.parameters, self_workflow.parameters[i].k) =>
                    /\ Has(context, s_workflow_dot \o self_workflow.parameters[i].k)
                    /\ Get(context, s_workflow_dot \o self_workflow.parameters[i].k)
                        = self_workflow.parameters[i].v

\* C20: while a processor constructed without a workflow runs
\* _execute_workflow for a message, the workflow it runs is the one the
\* workflows container holds under that message's config_name.
C20_EachMessageRunsItsOwnConfig ==
    pc \in {"run", "error_actions", "after_run"} =>
        \E document \in SequenceFolder(ConfigBlobName(msg.config_name)) :
            self_workflow = load_workflow_config(document)

\* the items the caller finds in each dict it was returned: those of the
\* live context when that is the same object, else those it was returned with
HeldContexts ==
    [i \in 1..Len(returned) |->
        IF returned[i].dict.id = context_id THEN context ELSE returned[i].dict.items]

\* what this call merged for its primary action that ended at entry p of calls
MergedByCall(p) ==
    PrefixKeys(ActionPrefix(self_workflow.actions[calls[p].index]),
               IF calls[p].op = "raised"
               THEN CaughtActionContext(Get(calls[p].data, s_error))
               ELSE calls[p].data)

\* the item key: value was written by the call in progress: from its
\* message, from the workflow it runs, or from an action it dispatched
WrittenByThisCall(key, value) ==
    \/ key = s_workflow_message_id /\ value = Str(msg.message_id)
    \/ key = s_workflow_config_name /\ value = msg.config_name
    \/ key = s_workflow_result /\ value \in {s_Processing, s_Error, s_Success}
    \/ /\ self_workflow # NoWorkflow
       /\ \/ key = s_workflow_name /\ value = self_workflow.name
          \/ /\ key = s_workflow_last_action
             /\ \E p \in Entered("primary") :
                    value = ActionName(self_workflow.actions[calls[p].index])
          \/ \E p \in 1..Len(calls) :
                /\ calls[p].kind = "primary"
                /\ calls[p].op \in {"returned", "raised"}
                /\ Has(MergedByCall(p), key)
                /\ Get(MergedByCall(p), key) = value
    \/ \E i \in 1..Len(msg.parameters) :
          /\ key = s_workflow_dot \o msg.parameters[i].k
          /\ value = msg.parameters[i].v

ReturnedContextIsOwn ==
    pc = "returned" => \A i \in 1..Len(context) : WrittenByThisCall(context[i].k, context[i].v)

\* C21: over any sequence of process_message calls on one processor, every
\* item of the context a call returns was written by that call (from its own
\* message, the workflow it ran and the actions it dispatched), and no step
\* of a later call changes the items of a dict returned earlier.
C21_ContextsAreIndependent ==
    [][/\ ReturnedContextIsOwn'
       /\ SubSeq(HeldContexts', 1, Len(returned)) = HeldContexts]_vars

\* the second call has returned a context without the parameter key the
\* first call's returned context holds
C21_Witness ==
    /\ pc = "returned"
    /\ Len(returned) = 1
    /\ returned[1].message_id # msg.message_id
    /\ Has(returned[1].dict.items, s_workflow_dot \o s_flag)
    /\ ~Has(context, s_workflow_dot \o s_flag)
    /\ Has(context, s_workflow_last_action)

\* C22: every receive_message call gives the callback at most one message;
\* when it received a message, it has acknowledged it with complete_message,
\* whether the callback returned or raised; it returns True exactly when a
\* message was received and the callback processed it without raising; and
\* it returns False when no message arrived.
C22_ReceiveDeliversOnceAndAcknowledges ==
    \A c \in 1..Len(receive_calls) :
        LET call == receive_calls[c]
            processed == /\ call.received # NoReceived
                         /\ Len(call.delivered) = 1
                         /\ ~call.callback_raised
        IN  /\ Len(call.delivered) <= 1
            /\ call.received # NoReceived =>
                   \E i \in 1..Len(call.completions) : call.completions[i]
            /\ (call.result = "True") <=> processed
            /\ (call.waited /\ call.received = NoReceived) => call.result = "False"

\* the class of the last register call made for the type, NoClass when
\* there was none
LastRegistered(action_type) ==
    LET made == {i \in 1..Len(registrations) : registrations[i].action_type = action_type}
    IN  IF made = {} THEN NoClass
        ELSE registrations[CHOOSE i \in made : \A j \in made : j <= i].handler_class

\* C23: after any sequence of register calls, get_handler of a type gives
\* the class of the last register call for that type and None for a type
\* never registered, and a register call leaves get_handler of every other
\* type as it was.
C23_LastRegistrationWins ==
    [][/\ \A action_type \in RegistryTypes :
            registry_get(action_registry', action_type) = LastRegistered(action_type)'
       /\ \A action_type \in RegistryTypes :
            action_type # registrations'[Len(registrations')].action_type =>
                registry_get(action_registry', action_type)
                    = registry_get(action_registry, action_type)]_vars

\* a type registered twice, with two classes, next to a type never registered
C23_Witness ==
    /\ Len(registrations) = 3
    /\ registrations[1].action_type = s_dummy
    /\ registrations[3].action_type = s_dummy
    /\ registrations[1].handler_class # registrations[3].handler_class
    /\ registrations[2].action_type = s_hello_world
    /\ registry_get(action_registry, s_dummy) = registrations[3].handler_class
    /\ registry_get(action_registry, <<"D","u","m","m","y">>) = NoClass

\* the condition evaluated is one part, written as a key, an operator and a literal
OnePart == Len(cond_parts.parts) = 1 /\ condition # None

ThePart == cond_parts.parts[1]

\* a literal between two quotes of the same kind
ProperlyQuoted(literal) ==
    /\ Len(literal) >= 2
    /\ literal[1] \in {"'", "\""}
    /\ literal[Len(literal)] = literal[1]

\* the malformed conditions: a side missing, no operator, an unknown
\* operator, an incomplete is / is not, a right side that is neither a
\* number nor properly quoted, a connective left dangling at the end
MalformedCondition ==
    \/ /\ OnePart
       /\ \/ ThePart.op \in ComparisonOps /\ (ThePart.key = <<>> \/ ThePart.literal = <<>>)
          \/ ThePart.op = <<>> /\ condition # <<>>
          \/ ThePart.op \in {op_eq3, op_arrow, op_eqlt}
          \/ ThePart.op \in {op_is, op_is_not}
          \/ /\ ThePart.op \in ComparisonOps
             /\ ThePart.literal # <<>>
             /\ ~IsDigit(ThePart.literal)
             /\ ~ProperlyQuoted(ThePart.literal)
          \/ ThePart.literal = lit_and
    \/ /\ Len(cond_parts.parts) >= 2
       /\ PartText(cond_parts.parts[Len(cond_parts.parts)]) = <<>>

\* C24: evaluate_condition returns a bool for every condition and context,
\* and False for every malformed condition.
C24_MalformedConditionIsFalse ==
    cond_outcome.called =>
        /\ cond_outcome.value \in BOOLEAN
        /\ MalformedCondition => cond_outcome.value = FALSE

\* C25: evaluate_condition(None, context) and evaluate_condition("", context)
\* are True for every context.
C25_NoConditionIsTrue ==
    (cond_outcome.called /\ (condition = None \/ condition = <<>>)) =>
        cond_outcome.value = TRUE

\* the empty str was evaluated against the context of the tests
C25_Witness ==
    /\ cond_outcome.called
    /\ condition = <<>>
    /\ Has(cond_context, k_name)
    /\ cond_outcome.value

\* the parts the condition was joined from, none of them blank
NonBlankParts ==
    /\ cond_outcome.called
    /\ Len(cond_parts.parts) >= 2
    /\ \A i \in 1..Len(cond_parts.parts) : PartText(cond_parts.parts[i]) # <<>>

\* what evaluate_condition gives for the i-th part on its own
PartValue(i) == evaluate_condition(PartText(cond_parts.parts[i]), cond_context)

JoinedBy(sep) == \A i \in 1..Len(cond_parts.seps) : cond_parts.seps[i] = sep

\* C26: parts joined by " or " evaluate to the OR of the parts, parts
\* joined by " and " to the AND of the parts, and "a and b or c" to
\* (a and b) or c.
C26_ConnectivesCombineTheParts ==
    NonBlankParts =>
        /\ JoinedBy(s_or) =>
              cond_outcome.value = (\E i \in 1..Len(cond_parts.parts) : PartValue(i))
        /\ JoinedBy(s_and) =>
              cond_outcome.value = (\A i \in 1..Len(cond_parts.parts) : PartValue(i))
        /\ cond_parts.seps = <<s_and, s_or>> =>
              cond_outcome.value = ((PartValue(1) /\ PartValue(2)) \/ PartValue(3))

\* one comparison was evaluated: a key the context holds in some letter
\* case, one of the six operators, and a literal
OneComparison ==
    /\ cond_outcome.called
    /\ OnePart
    /\ ThePart.key # <<>>
    /\ ThePart.op \in ComparisonOps
    /\ ThePart.literal # <<>>
    /\ Has(LowerKeys(cond_context), Lower(ThePart.key))

\* the context's value for the key of the comparison
LeftValue == Get(LowerKeys(cond_context), Lower(ThePart.key))

\* the literal of the comparison, without its quotes
RightText ==
    IF ProperlyQuoted(ThePart.literal)
    THEN SubSeq(ThePart.literal, 2, Len(ThePart.literal) - 1)
    ELSE ThePart.literal

\* the operator between two integers
IntegerComparison(op, m, n) ==
    IF op = <<"=","=">> THEN m = n
    ELSE IF op = <<"!","=">> THEN m # n
    ELSE IF op = <<">","=">> THEN m >= n
    ELSE IF op = <<"<","=">> THEN m <= n
    ELSE IF op = <<">">> THEN m > n
    ELSE m < n

BothDigits == OneComparison /\ LeftValue # None /\ IsDigit(LeftValue) /\ IsDigit(RightText)

\* C27: a digit-only context value and a digit-only literal are compared
\* as integers by each of the six operators.
C27_DigitsCompareAsIntegers ==
    BothDigits =>
        cond_outcome.value = IntegerComparison(ThePart.op, ToInt(LeftValue), ToInt(RightText))

\* "count < 10" with count "5": true of the integers, false of the text
C27_Witness ==
    /\ BothDigits
    /\ ThePart.op = <<"<">>
    /\ LeftValue = v_5
    /\ ThePart.literal = lit_10
    /\ cond_outcome.value

\* the operator between two strs
TextComparison(op, a, b) ==
    IF op = <<"=","=">> THEN a = b
    ELSE IF op = <<"!","=">> THEN a # b
    ELSE IF op = <<">","=">> THEN ~StrLess(a, b)
    ELSE IF op = <<"<","=">> THEN ~StrLess(b, a)
    ELSE IF op = <<">">> THEN StrLess(b, a)
    ELSE StrLess(a, b)

\* a comparison whose literal is written as lines 178-183 ask, a number
\* or text between quotes, and whose two sides did not both become integers
NotBothIntegers ==
    /\ OneComparison
    /\ ProperlyQuoted(ThePart.literal) \/ IsDigit(ThePart.literal)
    /\ ~BothDigits

\* both sides stayed strs
BothText == LeftValue # None /\ ~IsDigit(LeftValue) /\ ~IsDigit(RightText)

\* the condition reaches the comparison whole: neither line 133 nor
\* line 140 splits it
NoConnective == ~Contains(condition, s_or) /\ ~Contains(condition, s_and)

EqualityComparison ==
    /\ cond_outcome.called
    /\ OnePart
    /\ ThePart.key # <<>>
    /\ ThePart.op \in {<<"=","=">>, <<"!","=">>}
    /\ ProperlyQuoted(ThePart.literal)

\* the context with every stored str in lower case
LowerValues(d) ==
    [i \in 1..Len(d) |->
        [k |-> d[i].k, v |-> IF d[i].v = None THEN None ELSE Lower(d[i].v)]]

\* C29: the result of an == or != comparison does not change when the key
\* of the condition, the quoted literal, or the stored values are written
\* in lower case.
C29_LetterCaseDoesNotMatter ==
    EqualityComparison =>
        /\ cond_outcome.value =
              evaluate_condition(PartText([ThePart EXCEPT !.key = Lower(@)]), cond_context)
        /\ cond_outcome.value =
              evaluate_condition(PartText([ThePart EXCEPT !.literal = Lower(@)]), cond_context)
        /\ cond_outcome.value = evaluate_condition(condition, LowerValues(cond_context))

\* the context holds the key of the condition in some letter case, with a
\* value other than None
KeyHoldsValue ==
    \E i \in 1..Len(cond_context) :
        /\ Lower(cond_context[i].k) = Lower(ThePart.key)
        /\ cond_context[i].v # None

\* the context holds the key of the condition in no letter case
KeyMissing ==
    \A i \in 1..Len(cond_context) : Lower(cond_context[i].k) # Lower(ThePart.key)

\* a None check on a key was evaluated: "k is None" or "k is not None"
NoneCheck(op) ==
    /\ cond_outcome.called
    /\ OnePart
    /\ ThePart.key # <<>>
    /\ ThePart.op = op
    /\ ThePart.literal = <<>>

Resolved(segment) ==
    IF segment.token /\ (\E i \in 1..Len(tpl_context) : Lower(tpl_context[i].k) = Lower(segment.s))
    THEN LET i == CHOOSE i \in 1..Len(tpl_context) : Lower(tpl_context[i].k) = Lower(segment.s)
         IN  IF tpl_context[i].v = None THEN s_None ELSE tpl_context[i].v
    ELSE SegmentText(segment)

RECURSIVE ResolvedText(_)
ResolvedText(segments) ==
    IF segments = <<>> THEN <<>>
    ELSE Resolved(segments[1]) \o ResolvedText(Tail(segments))

\* C31: replace_placeholders(None, ctx) is None; in a text every token
\* whose key the context holds in some letter case becomes the str of its
\* value, every other token stays in place and the text outside tokens
\* is unchanged.
C31_TokensReplacedRestUnchanged ==
    tpl_outcome.called =>
        tpl_outcome.value = IF template = None THEN None ELSE ResolvedText(tpl_segments)

\* the primary action at index is dummy_ret_global and has returned
RetGlobalReturned(index) ==
    /\ self_workflow # NoWorkflow
    /\ index \in 1..Len(self_workflow.actions)
    /\ self_workflow.actions[index] = ActRetGlobal
    /\ \E p \in 1..Len(calls) :
          calls[p].op = "returned" /\ calls[p].kind = "primary" /\ calls[p].index = index

\* C32: once dummy_ret_global has returned, the context holds the values
\* it returned under workflow.wf_param_set_in_action and
\* workflow.wf_param_set_in_definition, and the input of every later action
\* holds them too.
C32_GlobalOutputReplacesWorkflowValue ==
    \A index \in 1..MaxActions :
        RetGlobalReturned(index) =>
            /\ Has(context, s_workflow_wf_param_set_in_action)
            /\ Get(context, s_workflow_wf_param_set_in_action) = s_A_new_value_from_action
            /\ Has(context, s_workflow_wf_param_set_in_definition)
            /\ Get(context, s_workflow_wf_param_set_in_definition) = s_A_new_value_from_definition
            /\ \A p \in 1..Len(calls) :
                  (calls[p].op = "execute" /\ calls[p].kind = "primary" /\ calls[p].index > index) =>
                      /\ Has(calls[p].data, s_workflow_wf_param_set_in_action)
                      /\ Get(calls[p].data, s_workflow_wf_param_set_in_action)
                            = s_A_new_value_from_action

\* no primary action of the workflow has a name, or for want of a name a
\* type, that makes the prefix "workflow"
NoWorkflowPrefix ==
    /\ self_workflow # NoWorkflow
    /\ \A i \in 1..Len(self_workflow.actions) :
          ReplaceChar(ActionName(self_workflow.actions[i]), " ", "_") # s_workflow

\* _execute_workflow is running: one of its two loops takes the next step
Running == pc \in {"run", "error_actions"}

\* C33: when no action's prefix is "workflow", a step of _execute_workflow
\* leaves workflow.result as it was or sets it to "Error", and a
\* workflow.result of "Error" stays "Error" in every later step of
\* process_message, up to the context it returns.
C33_RunOnlySetsResultToError ==
    [][(NoWorkflowPrefix /\ pc # "idle" /\ Has(context, s_workflow_result)) =>
          /\ Has(context', s_workflow_result)
          /\ Running =>
                \/ Get(context', s_workflow_result) = Get(context, s_workflow_result)
                \/ Get(context', s_workflow_result) = s_Error
          /\ Get(context, s_workflow_result) = s_Error =>
                Get(context', s_workflow_result) = s_Error]_vars

\* a primary action failed, an error action was dispatched, and
\* process_message returned a context whose workflow.result is "Error"
C33_Witness ==
    /\ NoWorkflowPrefix
    /\ pc = "returned"
    /\ msg.parameters = EmptyDict
    /\ \E p \in 1..Len(calls) : calls[p].op = "_execute_action" /\ calls[p].kind = "error"
    /\ Get(context, s_workflow_result) = s_Error

\* the primary action that failed: the last one dispatched
FailedPrimaryAction ==
    LET dispatched == {calls[p].index : p \in Entered("primary")}
    IN  self_workflow.actions[CHOOSE i \in dispatched : \A j \in dispatched : j <= i]

\* C34: a pass of the error loop leaves the context as it was, with
\* workflow.last_action naming the failed primary action, and saves no
\* status.
C34_ErrorActionsLeaveContextAlone ==
    [][pc = "error_actions" =>
          /\ context' = context
          /\ Get(context', s_workflow_last_action) = ActionName(FailedPrimaryAction)
          /\ statusLog' = statusLog
          /\ table' = table]_vars

\* an error action has returned an output with a result, and the context
\* holds nothing under its prefix
C34_Witness ==
    \E p \in 1..Len(calls) :
        /\ calls[p].kind = "error"
        /\ calls[p].op = "returned"
        /\ Has(calls[p].data, s_result)
        /\ ~Has(context, ActionPrefix(self_workflow.error_actions[calls[p].index])
                           \o <<".">> \o s_result)

\* how the error action at index ended, once _execute_action is over
ErrorActionEnded(index, op) ==
    \E p \in 1..Len(calls) :
        calls[p].kind = "error" /\ calls[p].index = index /\ calls[p].op = op

\* the error action at index was dispatched, or is the next to be
DispatchedOrNext(index) ==
    \/ \E p \in Entered("error") : calls[p].index = index
    \/ pc = "error_actions" /\ idx = index

\* C35: after an error action that returned, whatever its result, the
\* next error action is dispatched; after one that raised, none is.
C35_OnlyARaiseStopsErrorActions ==
    self_workflow # NoWorkflow =>
        \A index \in 1..Len(self_workflow.error_actions) :
            /\ (ErrorActionEnded(index, "returned") /\ index < Len(self_workflow.error_actions)) =>
                  DispatchedOrNext(index + 1)
            /\ ErrorActionEnded(index, "raised") =>
                  /\ pc # "error_actions"
                  /\ \A p \in Entered("error") : calls[p].index <= index

\* create_some_file, the first error action, returned the result "error"
\* and the second error action was dispatched
C35_Witness ==
    /\ \E p \in 1..Len(calls) :
          /\ calls[p].kind = "error"
          /\ calls[p].index = 1
          /\ calls[p].op = "returned"
          /\ Get(calls[p].data, s_result) = s_error
    /\ \E p \in Entered("error") : calls[p].index = 2

\* the primary action at index returned a result that is not "error" in
\* any letter case
ReturnedOtherThanError(index) ==
    \E p \in 1..Len(calls) :
        /\ calls[p].kind = "primary"
        /\ calls[p].index = index
        /\ calls[p].op = "returned"
        /\ Lower(Get(calls[p].data, s_result)) # s_error

\* the primary action at index was dispatched, or is the next to be
PrimaryDispatchedOrNext(index) ==
    \/ \E p \in Entered("primary") : calls[p].index = index
    \/ pc = "run" /\ idx = index

\* process_message has reported the status Success, and where that save
\* went through it has returned the context with workflow.result "Success"
ReportedSuccess ==
    \E s \in 1..Len(statusLog) :
        /\ statusLog[s].status = s_Success
        /\ statusLog[s].ok => (pc = "returned" /\ Get(context, s_workflow_result) = s_Success)

ContextBuilt == pc \in {"run", "after_run"} /\ statusLog = <<StatusCall(s_Processing, None, None, TRUE)>>

\* the message carries result = "Error" and every action of the workflow,
\* which has some, returned a result other than "error"
ErrorSeededAllSucceeded ==
    /\ self_workflow # NoWorkflow
    /\ self_workflow.actions # <<>>
    /\ NoWorkflowPrefix
    /\ Has(msg.parameters, s_result)
    /\ Get(msg.parameters, s_result) = s_Error
    /\ \A index \in 1..Len(self_workflow.actions) : ReturnedOtherThanError(index)

Dispatches(kind, index) ==
    Cardinality({p \in Entered(kind) : calls[p].index = index})

\* the number of error actions of the workflow
ErrorActionCount ==
    IF self_workflow.error_actions = NoActions THEN 0 ELSE Len(self_workflow.error_actions)

DispatchedAtMostOnce ==
    self_workflow # NoWorkflow =>
        /\ \A index \in 1..Len(self_workflow.actions) : Dispatches("primary", index) <= 1
        /\ \A index \in 1..ErrorActionCount : Dispatches("error", index) <= 1
        /\ Cardinality(Entered("primary") \cup Entered("error"))
              <= Len(self_workflow.actions) + ErrorActionCount
        /\ \A p \in 1..Len(calls) :
              calls[p].index <= IF calls[p].kind = "primary" THEN Len(self_workflow.actions)
                                ELSE ErrorActionCount

\* C38: _execute_workflow dispatches each primary action and each error
\* action at most once, at most |actions| + |error_actions| in all, and
\* whenever it is running it comes to an end.
C38_RunTerminates ==
    /\ []DispatchedAtMostOnce
    /\ Running ~> ~Running

\* _execute_workflow has ended after dispatching every action of both lists
C38_Witness ==
    /\ ~Running
    /\ Len(self_workflow.actions) = MaxActions
    /\ ErrorActionCount = MaxErrorActions
    /\ Cardinality(Entered("primary") \cup Entered("error")) = MaxActions + MaxErrorActions

\* the worker has saved "Processing" or a later status for the message
WorkerSaved == \E s \in 1..Len(statusLog) : statusLog[s].ok

\* C39: once the worker has saved "Processing" or a later status for the
\* message, its status record does not say "Queued".
C39_QueuedNeverOverwritesWorkerStatus ==
    WorkerSaved =>
        /\ Has(table, msg.message_id)
        /\ Get(table, msg.message_id).Status # s_Queued

====
